---- MODULE Spec2Model ----
(***************************************************************************)
(* Split Budget Tracker: the money module (src/lib/money.ts), the ledger   *)
(* engine (lib/ledger.ts), the in-memory event store (repo/eventStore.ts), *)
(* the projections (src/services/projections.ts) and the HTTP handlers     *)
(* (src/adapters/http/routes.ts).                                          *)
(*                                                                         *)
(* Money is a JavaScript number in the source.  Here every amount is an    *)
(* integer count of thousandths of a dollar ("mills"), so 0.01 is Cent     *)
(* mills and the tolerances 0.001 and 0.01 of the source are 1 and 10.     *)
(* A value with three decimals (100.001, 0.004) is representable, which is *)
(* what validateAmount and the rounding in the projections decide on.      *)
(* Binary floating-point error below the source's own tolerances is not    *)
(* modelled.                                                               *)
(***************************************************************************)
EXTENDS Integers, Sequences, FiniteSets, TLC

VARIABLES
    ledgerEntries,   \* EventStore.ledgerEntries
    transactions,    \* EventStore.transactions
    idempotencyMap,  \* EventStore.idempotencyMap
    now,             \* the clock value (new Date()) of the last stored entries
    response,        \* the HTTP response of the last request
    call,            \* the last direct call of a library function
    result,          \* what that call returned or threw
    inflight,        \* the requests received whose handler has not run yet
    replies,         \* the answered requests of the clients, with their responses
    oracle           \* the state of the acceptance test's Oracle

vars ==
    <<ledgerEntries, transactions, idempotencyMap, now, response, call, result,
      inflight, replies, oracle>>

\* what lives on the client side: the waiting requests, the answers, and the
\* Oracle object of the acceptance test
clientVars == <<inflight, replies, oracle>>

storeVars == <<ledgerEntries, transactions, idempotencyMap, now, response>>

----------------------------------------------------------------------------
(* Domain types (lib/ledger.ts) *)

UserId == {"A", "B"}

Category == {"food", "groceries", "transport", "entertainment", "other"}

NoCategory == "none"

\* 0.01 expressed in mills
Cent == 10

Abs(x) == IF x < 0 THEN -x ELSE x

\* Math.round(value * 100): the nearest whole number of cents, halves upwards
MathRoundCents(value) == (value + 5) \div 10

ACCOUNTS_CASH(userId) == <<"CASH", userId, NoCategory>>

ACCOUNTS_EXPENSE(userId, category) == <<"EXPENSE", userId, category>>

ACCOUNTS_DUE_FROM(from, to) == <<"DUE_FROM", from, to>>

ACCOUNTS_DUE_TO(from, to) == <<"DUE_TO", from, to>>

RECURSIVE SumDelta(_)
\* entries.reduce((sum, entry) => sum + entry.delta, 0)
SumDelta(entries) ==
    IF entries = <<>> THEN 0
    ELSE entries[1].delta + SumDelta(Tail(entries))

----------------------------------------------------------------------------
(* Money module (src/lib/money.ts) *)

roundTo2(value) == MathRoundCents(value) * Cent

\* the number of digits after the '.' in value.toString()
DecimalPlaces(value) ==
    IF value % 10 # 0 THEN 3
    ELSE IF value % 100 # 0 THEN 2
    ELSE IF value % 1000 # 0 THEN 1
    ELSE 0

NoError == "ok"

\* validateAmount without the count of the decimal places
validateAmount_NoDecimalCheck(value) ==
    IF value <= 0 THEN "Amount must be positive"
    ELSE IF value < Cent THEN "Amount too small (minimum 0.01)"
    ELSE NoError

\* validateAmount returns nothing or throws; the value here is the message
\* thrown, or NoError
validateAmount(value) ==
    IF value <= 0 THEN "Amount must be positive"
    ELSE IF DecimalPlaces(value) > 2 THEN "Amount must have at most 2 decimal places"
    ELSE IF value < Cent THEN "Amount too small (minimum 0.01)"
    ELSE NoError

SplitTolerance == 1

\* splitEqually with the half rounded to the nearest cent instead of floored
splitEqually_RoundedHalf(totalAmount) ==
    IF validateAmount(totalAmount) # NoError
    THEN [error |-> validateAmount(totalAmount), perUserShare |-> 0, remainder |-> 0]
    ELSE
        LET totalCents == MathRoundCents(totalAmount)
            halfCents == (totalCents + 1) \div 2
            remainderCents == totalCents - halfCents * 2
        IN  [error |-> NoError, perUserShare |-> halfCents * Cent,
             remainder |-> remainderCents * Cent]

splitEqually(totalAmount) ==
    IF validateAmount(totalAmount) # NoError
    THEN [error |-> validateAmount(totalAmount), perUserShare |-> 0, remainder |-> 0]
    ELSE
        LET totalCents == MathRoundCents(totalAmount)
            halfCents == totalCents \div 2
            remainderCents == totalCents - halfCents * 2
            perUserShare == halfCents * Cent
            remainder == remainderCents * Cent
            reconstructed == perUserShare * 2 + remainder
        IN  IF Abs(reconstructed - totalAmount) > SplitTolerance
            THEN [error |-> "Split calculation error", perUserShare |-> 0, remainder |-> 0]
            ELSE [error |-> NoError, perUserShare |-> perUserShare, remainder |-> remainder]

----------------------------------------------------------------------------
(* Ledger engine (lib/ledger.ts) *)

Entry(id, txType, txId, account, userId, category, delta, createdAt) ==
    [id |-> id, txType |-> txType, txId |-> txId, account |-> account,
     userId |-> userId, category |-> category, delta |-> delta,
     createdAt |-> createdAt]

BalanceTolerance == 1

Thrown(message) == [error |-> message, entries |-> <<>>]

Returned(entries) == [error |-> NoError, entries |-> entries]

\* The entries postGroupExpense builds before it verifies the balance.
\* txId and createdAt stand for uuidv4() and new Date().toISOString().
\* the expense entries with the payable booked on the payer's side
GroupExpenseEntries_ReversedPayable(input, txId, createdAt) ==
    LET payerId == input.payerId
        amount == input.amount
        category == input.category
        otherUserId == IF payerId = "A" THEN "B" ELSE "A"
        split == splitEqually(amount)
        receivableAmount == split.perUserShare + split.remainder
    IN  << Entry(<<txId, 1>>, "GROUP", txId, ACCOUNTS_CASH(payerId), payerId,
                 NoCategory, -amount, createdAt),
           Entry(<<txId, 2>>, "GROUP", txId, ACCOUNTS_EXPENSE(payerId, category),
                 payerId, category, split.perUserShare, createdAt),
           Entry(<<txId, 3>>, "GROUP", txId, ACCOUNTS_EXPENSE(otherUserId, category),
                 otherUserId, category, split.perUserShare, createdAt),
           Entry(<<txId, 4>>, "GROUP", txId, ACCOUNTS_DUE_FROM(payerId, otherUserId),
                 payerId, NoCategory, receivableAmount, createdAt),
           Entry(<<txId, 5>>, "GROUP", txId, ACCOUNTS_DUE_TO(payerId, otherUserId),
                 payerId, NoCategory, -receivableAmount, createdAt) >>

GroupExpenseEntries(input, txId, createdAt) ==
    LET payerId == input.payerId
        amount == input.amount
        category == input.category
        otherUserId == IF payerId = "A" THEN "B" ELSE "A"
        split == splitEqually(amount)
        receivableAmount == split.perUserShare + split.remainder
    IN  << Entry(<<txId, 1>>, "GROUP", txId, ACCOUNTS_CASH(payerId), payerId,
                 NoCategory, -amount, createdAt),
           Entry(<<txId, 2>>, "GROUP", txId, ACCOUNTS_EXPENSE(payerId, category),
                 payerId, category, split.perUserShare, createdAt),
           Entry(<<txId, 3>>, "GROUP", txId, ACCOUNTS_EXPENSE(otherUserId, category),
                 otherUserId, category, split.perUserShare, createdAt),
           Entry(<<txId, 4>>, "GROUP", txId, ACCOUNTS_DUE_FROM(payerId, otherUserId),
                 payerId, NoCategory, receivableAmount, createdAt),
           Entry(<<txId, 5>>, "GROUP", txId, ACCOUNTS_DUE_TO(otherUserId, payerId),
                 otherUserId, NoCategory, -receivableAmount, createdAt) >>

\* postGroupExpense without the final balance verification
postGroupExpense_Unverified(input, txId, createdAt) ==
    IF validateAmount(input.amount) # NoError
    THEN Thrown(validateAmount(input.amount))
    ELSE Returned(GroupExpenseEntries(input, txId, createdAt))

postGroupExpense(input, txId, createdAt) ==
    IF validateAmount(input.amount) # NoError
    THEN Thrown(validateAmount(input.amount))
    ELSE IF splitEqually(input.amount).error # NoError
    THEN Thrown(splitEqually(input.amount).error)
    ELSE
        LET entries == GroupExpenseEntries(input, txId, createdAt)
            totalDelta == SumDelta(entries)
        IN  IF Abs(totalDelta) > BalanceTolerance
            THEN Thrown("Transaction not balanced")
            ELSE Returned(entries)

\* the settlement entries with the payable booked on the reversed pair
SettlementEntries_ReversedPayable(input, txId, createdAt) ==
    LET fromUserId == input.fromUserId
        toUserId == input.toUserId
        amount == input.amount
    IN  << Entry(<<txId, 1>>, "SETTLEMENT", txId, ACCOUNTS_CASH(fromUserId),
                 fromUserId, NoCategory, -amount, createdAt),
           Entry(<<txId, 2>>, "SETTLEMENT", txId, ACCOUNTS_CASH(toUserId),
                 toUserId, NoCategory, amount, createdAt),
           Entry(<<txId, 3>>, "SETTLEMENT", txId, ACCOUNTS_DUE_FROM(toUserId, fromUserId),
                 toUserId, NoCategory, -amount, createdAt),
           Entry(<<txId, 4>>, "SETTLEMENT", txId, ACCOUNTS_DUE_TO(toUserId, fromUserId),
                 fromUserId, NoCategory, amount, createdAt) >>

\* the settlement entries with the payment taken off the payer's food budget
\* in the place of the payee's receivable
SettlementEntries_RefundsBudget(input, txId, createdAt) ==
    LET fromUserId == input.fromUserId
        toUserId == input.toUserId
        amount == input.amount
    IN  << Entry(<<txId, 1>>, "SETTLEMENT", txId, ACCOUNTS_CASH(fromUserId),
                 fromUserId, NoCategory, -amount, createdAt),
           Entry(<<txId, 2>>, "SETTLEMENT", txId, ACCOUNTS_CASH(toUserId),
                 toUserId, NoCategory, amount, createdAt),
           Entry(<<txId, 3>>, "SETTLEMENT", txId, ACCOUNTS_EXPENSE(fromUserId, "food"),
                 fromUserId, "food", -amount, createdAt),
           Entry(<<txId, 4>>, "SETTLEMENT", txId, ACCOUNTS_DUE_TO(fromUserId, toUserId),
                 fromUserId, NoCategory, amount, createdAt) >>

\* the settlement entries with the payee's side booked as an expense
SettlementEntries_BooksExpense(input, txId, createdAt) ==
    LET fromUserId == input.fromUserId
        toUserId == input.toUserId
        amount == input.amount
    IN  << Entry(<<txId, 1>>, "SETTLEMENT", txId, ACCOUNTS_CASH(fromUserId),
                 fromUserId, NoCategory, -amount, createdAt),
           Entry(<<txId, 2>>, "SETTLEMENT", txId, ACCOUNTS_EXPENSE(toUserId, "other"),
                 toUserId, "other", amount, createdAt),
           Entry(<<txId, 3>>, "SETTLEMENT", txId, ACCOUNTS_DUE_FROM(toUserId, fromUserId),
                 toUserId, NoCategory, -amount, createdAt),
           Entry(<<txId, 4>>, "SETTLEMENT", txId, ACCOUNTS_DUE_TO(fromUserId, toUserId),
                 fromUserId, NoCategory, amount, createdAt) >>

SettlementEntries(input, txId, createdAt) ==
    LET fromUserId == input.fromUserId
        toUserId == input.toUserId
        amount == input.amount
    IN  << Entry(<<txId, 1>>, "SETTLEMENT", txId, ACCOUNTS_CASH(fromUserId),
                 fromUserId, NoCategory, -amount, createdAt),
           Entry(<<txId, 2>>, "SETTLEMENT", txId, ACCOUNTS_CASH(toUserId),
                 toUserId, NoCategory, amount, createdAt),
           Entry(<<txId, 3>>, "SETTLEMENT", txId, ACCOUNTS_DUE_FROM(toUserId, fromUserId),
                 toUserId, NoCategory, -amount, createdAt),
           Entry(<<txId, 4>>, "SETTLEMENT", txId, ACCOUNTS_DUE_TO(fromUserId, toUserId),
                 fromUserId, NoCategory, amount, createdAt) >>

\* postSettlement without the comparison of the two parties
postSettlement_NoSelfCheck(input, txId, createdAt) ==
    IF validateAmount(input.amount) # NoError
    THEN Thrown(validateAmount(input.amount))
    ELSE
        LET entries == SettlementEntries(input, txId, createdAt)
            totalDelta == SumDelta(entries)
        IN  IF Abs(totalDelta) > BalanceTolerance
            THEN Thrown("Transaction not balanced")
            ELSE Returned(entries)

postSettlement(input, txId, createdAt) ==
    IF validateAmount(input.amount) # NoError
    THEN Thrown(validateAmount(input.amount))
    ELSE IF input.fromUserId = input.toUserId
    THEN Thrown("Cannot settle with yourself")
    ELSE
        LET entries == SettlementEntries(input, txId, createdAt)
            totalDelta == SumDelta(entries)
        IN  IF Abs(totalDelta) > BalanceTolerance
            THEN Thrown("Transaction not balanced")
            ELSE Returned(entries)

\* the 0.01 of the mirroring check
MirrorTolerance == Cent

RECURSIVE CheckMirrored(_, _)
\* the loop over dueFromEntries: the message of the first throw, or NoError;
\* find() takes the first DUE_TO entry booked on the corresponding account
CheckMirrored(dueFromEntries, dueToEntries) ==
    IF dueFromEntries = <<>> THEN NoError
    ELSE
        LET fromEntry == Head(dueFromEntries)
            correspondingToAccount ==
                ACCOUNTS_DUE_TO(fromEntry.account[3], fromEntry.account[2])
            found == SelectSeq(dueToEntries,
                               LAMBDA e : e.account = correspondingToAccount)
        IN  IF found = <<>>
            THEN "Missing corresponding DUE_TO entry"
            ELSE IF Abs(fromEntry.delta + found[1].delta) > MirrorTolerance
            THEN "DUE_FROM and DUE_TO entries not mirrored"
            ELSE CheckMirrored(Tail(dueFromEntries), dueToEntries)

\* validateLedgerEntries returns true or throws; the value here is the
\* message thrown, or NoError
validateLedgerEntries(entries) ==
    IF Abs(SumDelta(entries)) > BalanceTolerance
    THEN "Transaction not balanced"
    ELSE CheckMirrored(
             SelectSeq(entries, LAMBDA e : e.account[1] = "DUE_FROM"),
             SelectSeq(entries, LAMBDA e : e.account[1] = "DUE_TO"))

----------------------------------------------------------------------------
(* Projections (src/services/projections.ts) *)

NoUser == "null"

\* The values of the clock the model tells apart: two reads return the same
\* value or the later one a later value.
Times == {0, 1}

roundTo2Decimals(value) == MathRoundCents(value) * Cent

\* the wallet balance without the cash a settlement moves
computeWalletBalance_IgnoresSettlements(userId, entries) ==
    roundTo2Decimals(
        SumDelta(SelectSeq(entries, LAMBDA entry :
            entry.account = ACCOUNTS_CASH(userId) /\ entry.txType # "SETTLEMENT")))

computeWalletBalance(userId, entries) ==
    roundTo2Decimals(
        SumDelta(SelectSeq(entries, LAMBDA entry : entry.account = ACCOUNTS_CASH(userId))))

\* entry.account.startsWith(`EXPENSE:${userId}:`), then the category is the
\* third ':'-separated part of the account name
\* the budgets of the categories that have entries, and no others
computeBudgetByCategory_OnlyBooked(userId, entries) ==
    [category \in {c \in Category :
                      \E k \in 1..Len(entries) :
                          entries[k].account = ACCOUNTS_EXPENSE(userId, c)} |->
        roundTo2Decimals(
            SumDelta(SelectSeq(entries, LAMBDA entry :
                /\ entry.account[1] = "EXPENSE"
                /\ entry.account[2] = userId
                /\ entry.account[3] = category)))]

computeBudgetByCategory(userId, entries) ==
    [category \in Category |->
        roundTo2Decimals(
            SumDelta(SelectSeq(entries, LAMBDA entry :
                /\ entry.account[1] = "EXPENSE"
                /\ entry.account[2] = userId
                /\ entry.account[3] = category)))]

NetDueTolerance == 1

\* the net due with the debtor taken for the creditor
computeNetDue_Reversed(entries) ==
    LET dueFromAToB ==
            SumDelta(SelectSeq(entries, LAMBDA entry :
                entry.account = ACCOUNTS_DUE_FROM("A", "B")))
        dueFromBToA ==
            SumDelta(SelectSeq(entries, LAMBDA entry :
                entry.account = ACCOUNTS_DUE_FROM("B", "A")))
        netDue == dueFromAToB - dueFromBToA
    IN  IF Abs(netDue) < NetDueTolerance THEN [owes |-> NoUser, amount |-> 0]
        ELSE IF netDue > 0 THEN [owes |-> "A", amount |-> roundTo2Decimals(netDue)]
        ELSE [owes |-> "B", amount |-> roundTo2Decimals(Abs(netDue))]

computeNetDue(entries) ==
    LET dueFromAToB ==
            SumDelta(SelectSeq(entries, LAMBDA entry :
                entry.account = ACCOUNTS_DUE_FROM("A", "B")))
        dueFromBToA ==
            SumDelta(SelectSeq(entries, LAMBDA entry :
                entry.account = ACCOUNTS_DUE_FROM("B", "A")))
        netDue == dueFromAToB - dueFromBToA
    IN  IF Abs(netDue) < NetDueTolerance THEN [owes |-> NoUser, amount |-> 0]
        ELSE IF netDue > 0 THEN [owes |-> "B", amount |-> roundTo2Decimals(netDue)]
        ELSE [owes |-> "A", amount |-> roundTo2Decimals(Abs(netDue))]

computeUserSummary(userId, entries) ==
    [userId |-> userId,
     walletBalance |-> computeWalletBalance(userId, entries),
     budgetByCategory |-> computeBudgetByCategory(userId, entries)]

computeUserSummaries(entries) ==
    << computeUserSummary("A", entries), computeUserSummary("B", entries) >>

computeCompleteSummary(entries) ==
    [users |-> computeUserSummaries(entries), netDue |-> computeNetDue(entries)]

----------------------------------------------------------------------------
(* Event store (repo/eventStore.ts) *)

\* entries.find(e => e.account.includes('EXPENSE') && e.userId !== payerId)?.delta || 0
OtherUserShare(input, entries) ==
    LET found == SelectSeq(entries, LAMBDA e :
                     e.account[1] = "EXPENSE" /\ e.userId # input.payerId)
    IN  IF found = <<>> THEN 0 ELSE found[1].delta

\* the transaction summary addGroupExpense records and returns
GroupExpenseTransaction(input, entries) ==
    [id |-> entries[1].txId,
     type |-> "GROUP",
     payerId |-> input.payerId,
     amount |-> roundTo2Decimals(input.amount),
     category |-> input.category,
     perUserShare |-> roundTo2Decimals(OtherUserShare(input, entries)),
     remainder |-> roundTo2Decimals(input.amount - OtherUserShare(input, entries) * 2),
     createdAt |-> entries[1].createdAt]

\* the transaction summary addSettlement records and returns
SettlementTransaction(input, entries) ==
    [id |-> entries[1].txId,
     type |-> "SETTLEMENT",
     fromUserId |-> input.fromUserId,
     toUserId |-> input.toUserId,
     amount |-> roundTo2Decimals(input.amount),
     createdAt |-> entries[1].createdAt]

\* A store is the triple of the EventStore's fields.
Store(entries, txs, idem) ==
    [ledgerEntries |-> entries, transactions |-> txs, idempotencyMap |-> idem]

\* a store call that puts the new entries in front of the stored ones
addGroupExpense_Prepends(store, input, entries) ==
    [store EXCEPT
        !.transactions = Append(@, GroupExpenseTransaction(input, entries)),
        !.ledgerEntries = entries \o @]

addGroupExpense(store, input, entries) ==
    [store EXCEPT
        !.transactions = Append(@, GroupExpenseTransaction(input, entries)),
        !.ledgerEntries = @ \o entries]

\* a store call that loses the last entry of the settlement
addSettlement_DropsLastEntry(store, input, entries) ==
    [store EXCEPT
        !.transactions = Append(@, SettlementTransaction(input, entries)),
        !.ledgerEntries = @ \o SubSeq(entries, 1, Len(entries) - 1)]

addSettlement(store, input, entries) ==
    [store EXCEPT
        !.transactions = Append(@, SettlementTransaction(input, entries)),
        !.ledgerEntries = @ \o entries]

\* a cache insert that stores nothing
storeIdempotencyResponse_Forgets(store, key, value) == store

storeIdempotencyResponse(store, key, value) ==
    [store EXCEPT
        !.idempotencyMap =
            [k \in (DOMAIN @) \cup {key} |-> IF k = key THEN value ELSE @[k]]]

\* a lookup that finds no stored response
hasIdempotencyResponse_NeverFound(store, key) == FALSE

\* getIdempotencyResponse(key) is undefined for a key that was never stored
hasIdempotencyResponse(store, key) == key \in DOMAIN store.idempotencyMap

getIdempotencyResponse(store, key) == store.idempotencyMap[key]

\* [...].sort((a, b) => a.createdAt - b.createdAt): a stable sort, so a
\* transaction goes before the sorted ones that are not earlier than it
RECURSIVE SortByCreatedAt(_)
SortByCreatedAt(txs) ==
    IF txs = <<>> THEN <<>>
    ELSE LET sorted == SortByCreatedAt(Tail(txs))
         IN  SelectSeq(sorted, LAMBDA t : t.createdAt < Head(txs).createdAt)
             \o <<Head(txs)>>
             \o SelectSeq(sorted, LAMBDA t : t.createdAt >= Head(txs).createdAt)

\* the list with the latest transaction first
listTransactions_LatestFirst(store) ==
    LET sorted == SortByCreatedAt(store.transactions)
    IN  [i \in 1..Len(sorted) |-> sorted[Len(sorted) + 1 - i]]

listTransactions(store) == SortByCreatedAt(store.transactions)

getLedgerEntries(store) == store.ledgerEntries

clear(store) == Store(<<>>, <<>>, <<>>)

\* the initial entries put in the place of the stored ones
addInitialEntries_Replaces(store, entries) == [store EXCEPT !.ledgerEntries = entries]

addInitialEntries(store, entries) == [store EXCEPT !.ledgerEntries = @ \o entries]

----------------------------------------------------------------------------
(* Request validation (src/adapters/http/validators.ts) *)

\* A decimal string is modelled by what the schema and parseFloat read off
\* it: its numeric value in mills and the number of digits after the '.'.
DecimalString(value, places) == [value |-> value, places |-> places]

\* the string with exactly two fractional digits that denotes the cents
Money(cents) == DecimalString(cents * Cent, 2)

parseFloat(text) == text.value

\* 1,000,000 in mills
MaxMoney == 1000000000

\* /^\d+\.\d{2}$/ admits no sign and exactly two fractional digits
MoneySchema(text) ==
    /\ text.value >= 0
    /\ text.places = 2
    /\ parseFloat(text) > 0
    /\ parseFloat(text) <= MaxMoney

CategorySchema(category) == category \in Category

UserIdSchema(userId) == userId \in UserId

GroupExpenseInputSchema(body) ==
    /\ UserIdSchema(body.payerId)
    /\ MoneySchema(body.amount)
    /\ CategorySchema(body.category)

\* the message of the failed refinement, or NoError, or the generic message
SettlementInputSchema(body) ==
    IF ~(UserIdSchema(body.fromUserId) /\ UserIdSchema(body.toUserId)
            /\ MoneySchema(body.amount))
    THEN "Invalid request body"
    ELSE IF body.fromUserId = body.toUserId THEN "Cannot settle with yourself"
    ELSE NoError

\* no Idempotency-Key header
NoKey == ""

\* a key of 256 characters
LongKey == "k256"

KeyLength(key) == IF key = NoKey THEN 0 ELSE IF key = LongKey THEN 256 ELSE 2

MaxKeyLength == 255

IdempotencyKeySchema(key) == KeyLength(key) >= 1 /\ KeyLength(key) <= MaxKeyLength

----------------------------------------------------------------------------
(* Error responses (src/adapters/http/errorHandler.ts) *)

ValidationError(message) ==
    [status |-> 422,
     body |-> [type |-> "validation-error", title |-> "Invalid request body",
               detail |-> message, status |-> 422]]

\* the conflict reported as a validation error
ConflictError_AsValidationError(message) ==
    [status |-> 422,
     body |-> [type |-> "validation-error", title |-> "Invalid request body",
               detail |-> message, status |-> 422]]

ConflictError(message) ==
    [status |-> 409,
     body |-> [type |-> "idempotency-conflict", title |-> "Idempotency conflict",
               detail |-> message, status |-> 409]]

\* a plain Error thrown by the ledger: no statusCode, not operational
InternalError(message) ==
    [status |-> 500,
     body |-> [type |-> "internal-error", title |-> "Internal server error",
               detail |-> "Internal server error", status |-> 500]]

Json(status, body) == [status |-> status, body |-> body]

----------------------------------------------------------------------------
(* HTTP handlers (src/adapters/http/routes.ts) *)

\* What a handler leaves behind: the store and the response.
Outcome(store, reply) == [store |-> store, response |-> reply]

CurrentStore == Store(ledgerEntries, transactions, idempotencyMap)

\* POST /transactions storing the entries before the ledger has verified them
PostTransactionsHandler_StoresUnverified(store, body, idempotencyKey, txId, createdAt) ==
    IF ~GroupExpenseInputSchema(body)
    THEN Outcome(store, ValidationError("Invalid request body"))
    ELSE IF idempotencyKey # NoKey /\ ~IdempotencyKeySchema(idempotencyKey)
    THEN Outcome(store, ValidationError("Invalid idempotency key"))
    ELSE IF idempotencyKey # NoKey /\ hasIdempotencyResponse(store, idempotencyKey)
    THEN
        LET existingResponse == getIdempotencyResponse(store, idempotencyKey)
        IN  IF existingResponse.input = body
            THEN Outcome(store, Json(200, existingResponse.data))
            ELSE Outcome(store,
                     ConflictError("Idempotency key exists with different request body"))
    ELSE
        LET numericInput == [body EXCEPT !.amount = parseFloat(body.amount)]
            posted == postGroupExpense(numericInput, txId, createdAt)
            stored == addGroupExpense(store, numericInput,
                          GroupExpenseEntries(numericInput, txId, createdAt))
        IN  IF posted.error # NoError
            THEN Outcome(stored, InternalError(posted.error))
            ELSE
                LET data == [transaction |-> stored.transactions[Len(stored.transactions)],
                             summary |-> computeCompleteSummary(stored.ledgerEntries)]
                    cached ==
                        IF idempotencyKey # NoKey
                        THEN storeIdempotencyResponse(stored, idempotencyKey,
                                 [input |-> body, data |-> data])
                        ELSE stored
                IN  Outcome(cached, Json(201, data))

\* POST /transactions; txId and createdAt stand for uuidv4() and new Date()
PostTransactionsHandler(store, body, idempotencyKey, txId, createdAt) ==
    IF ~GroupExpenseInputSchema(body)
    THEN Outcome(store, ValidationError("Invalid request body"))
    ELSE IF idempotencyKey # NoKey /\ ~IdempotencyKeySchema(idempotencyKey)
    THEN Outcome(store, ValidationError("Invalid idempotency key"))
    ELSE IF idempotencyKey # NoKey /\ hasIdempotencyResponse(store, idempotencyKey)
    THEN
        LET existingResponse == getIdempotencyResponse(store, idempotencyKey)
        IN  IF existingResponse.input = body
            THEN Outcome(store, Json(200, existingResponse.data))
            ELSE Outcome(store,
                     ConflictError("Idempotency key exists with different request body"))
    ELSE
        LET numericInput == [body EXCEPT !.amount = parseFloat(body.amount)]
            posted == postGroupExpense(numericInput, txId, createdAt)
        IN  IF posted.error # NoError
            THEN Outcome(store, InternalError(posted.error))
            ELSE
                LET stored == addGroupExpense(store, numericInput, posted.entries)
                    data == [transaction |-> stored.transactions[Len(stored.transactions)],
                             summary |-> computeCompleteSummary(stored.ledgerEntries)]
                    cached ==
                        IF idempotencyKey # NoKey
                        THEN storeIdempotencyResponse(stored, idempotencyKey,
                                 [input |-> body, data |-> data])
                        ELSE stored
                IN  Outcome(cached, Json(201, data))

\* the over-settlement check refusing a settlement of exactly the debt
OverSettlementCheck_RefusesExact(currentNetDue, input, settlementAmount) ==
    IF currentNetDue.owes = NoUser
    THEN <<"Over-settlement: No money is owed between users">>
    ELSE IF currentNetDue.owes # input.fromUserId
    THEN <<"Over-settlement: does not owe, cannot settle in this direction",
           input.fromUserId, input.toUserId>>
    ELSE IF settlementAmount >= currentNetDue.amount
    THEN <<"Over-settlement: Attempted to settle more than is owed",
           settlementAmount, currentNetDue.amount>>
    ELSE <<NoError>>

\* the over-settlement check without the comparison of the amounts
OverSettlementCheck_NoAmountCheck(currentNetDue, input, settlementAmount) ==
    IF currentNetDue.owes = NoUser
    THEN <<"Over-settlement: No money is owed between users">>
    ELSE IF currentNetDue.owes # input.fromUserId
    THEN <<"Over-settlement: does not owe, cannot settle in this direction",
           input.fromUserId, input.toUserId>>
    ELSE <<NoError>>

\* the over-settlement check of POST /settle: the message thrown, or NoError
OverSettlementCheck(currentNetDue, input, settlementAmount) ==
    IF currentNetDue.owes = NoUser
    THEN <<"Over-settlement: No money is owed between users">>
    ELSE IF currentNetDue.owes # input.fromUserId
    THEN <<"Over-settlement: does not owe, cannot settle in this direction",
           input.fromUserId, input.toUserId>>
    ELSE IF settlementAmount > currentNetDue.amount
    THEN <<"Over-settlement: Attempted to settle more than is owed",
           settlementAmount, currentNetDue.amount>>
    ELSE <<NoError>>

\* POST /settle caching the refusal of an over-settlement under the key
PostSettleHandler_CachesRefusal(store, body, idempotencyKey, txId, createdAt) ==
    IF SettlementInputSchema(body) # NoError
    THEN Outcome(store, ValidationError(SettlementInputSchema(body)))
    ELSE IF idempotencyKey # NoKey /\ ~IdempotencyKeySchema(idempotencyKey)
    THEN Outcome(store, ValidationError("Invalid idempotency key"))
    ELSE IF idempotencyKey # NoKey /\ hasIdempotencyResponse(store, idempotencyKey)
    THEN
        LET existingResponse == getIdempotencyResponse(store, idempotencyKey)
        IN  IF existingResponse.input = body
            THEN Outcome(store, Json(200, existingResponse.data))
            ELSE Outcome(store,
                     ConflictError("Idempotency key exists with different request body"))
    ELSE
        LET numericInput == [body EXCEPT !.amount = parseFloat(body.amount)]
            currentNetDue == computeNetDue(store.ledgerEntries)
            check == OverSettlementCheck(currentNetDue, body, numericInput.amount)
            posted == postSettlement(numericInput, txId, createdAt)
        IN  IF check # <<NoError>>
            THEN Outcome(IF idempotencyKey # NoKey
                         THEN storeIdempotencyResponse(store, idempotencyKey,
                                  [input |-> body,
                                   data |-> ValidationError(check).body])
                         ELSE store,
                         ValidationError(check))
            ELSE IF posted.error # NoError
            THEN Outcome(store, InternalError(posted.error))
            ELSE
                LET stored == addSettlement(store, numericInput, posted.entries)
                    data == [settlement |-> stored.transactions[Len(stored.transactions)],
                             summary |-> computeCompleteSummary(stored.ledgerEntries)]
                    cached ==
                        IF idempotencyKey # NoKey
                        THEN storeIdempotencyResponse(stored, idempotencyKey,
                                 [input |-> body, data |-> data])
                        ELSE stored
                IN  Outcome(cached, Json(201, data))

\* POST /settle with the over-settlement check ahead of the idempotency lookup
PostSettleHandler_GuardFirst(store, body, idempotencyKey, txId, createdAt) ==
    IF SettlementInputSchema(body) # NoError
    THEN Outcome(store, ValidationError(SettlementInputSchema(body)))
    ELSE IF idempotencyKey # NoKey /\ ~IdempotencyKeySchema(idempotencyKey)
    THEN Outcome(store, ValidationError("Invalid idempotency key"))
    ELSE IF OverSettlementCheck(computeNetDue(store.ledgerEntries), body,
                                parseFloat(body.amount)) # <<NoError>>
    THEN Outcome(store, ValidationError(
             OverSettlementCheck(computeNetDue(store.ledgerEntries), body,
                                 parseFloat(body.amount))))
    ELSE IF idempotencyKey # NoKey /\ hasIdempotencyResponse(store, idempotencyKey)
    THEN
        LET existingResponse == getIdempotencyResponse(store, idempotencyKey)
        IN  IF existingResponse.input = body
            THEN Outcome(store, Json(200, existingResponse.data))
            ELSE Outcome(store,
                     ConflictError("Idempotency key exists with different request body"))
    ELSE
        LET numericInput == [body EXCEPT !.amount = parseFloat(body.amount)]
            posted == postSettlement(numericInput, txId, createdAt)
        IN  IF posted.error # NoError
            THEN Outcome(store, InternalError(posted.error))
            ELSE
                LET stored == addSettlement(store, numericInput, posted.entries)
                    data == [settlement |-> stored.transactions[Len(stored.transactions)],
                             summary |-> computeCompleteSummary(stored.ledgerEntries)]
                    cached ==
                        IF idempotencyKey # NoKey
                        THEN storeIdempotencyResponse(stored, idempotencyKey,
                                 [input |-> body, data |-> data])
                        ELSE stored
                IN  Outcome(cached, Json(201, data))

\* POST /settle
PostSettleHandler(store, body, idempotencyKey, txId, createdAt) ==
    IF SettlementInputSchema(body) # NoError
    THEN Outcome(store, ValidationError(SettlementInputSchema(body)))
    ELSE IF idempotencyKey # NoKey /\ ~IdempotencyKeySchema(idempotencyKey)
    THEN Outcome(store, ValidationError("Invalid idempotency key"))
    ELSE IF idempotencyKey # NoKey /\ hasIdempotencyResponse(store, idempotencyKey)
    THEN
        LET existingResponse == getIdempotencyResponse(store, idempotencyKey)
        IN  IF existingResponse.input = body
            THEN Outcome(store, Json(200, existingResponse.data))
            ELSE Outcome(store,
                     ConflictError("Idempotency key exists with different request body"))
    ELSE
        LET numericInput == [body EXCEPT !.amount = parseFloat(body.amount)]
            currentNetDue == computeNetDue(store.ledgerEntries)
            check == OverSettlementCheck(currentNetDue, body, numericInput.amount)
            posted == postSettlement(numericInput, txId, createdAt)
        IN  IF check # <<NoError>>
            THEN Outcome(store, ValidationError(check))
            ELSE IF posted.error # NoError
            THEN Outcome(store, InternalError(posted.error))
            ELSE
                LET stored == addSettlement(store, numericInput, posted.entries)
                    data == [settlement |-> stored.transactions[Len(stored.transactions)],
                             summary |-> computeCompleteSummary(stored.ledgerEntries)]
                    cached ==
                        IF idempotencyKey # NoKey
                        THEN storeIdempotencyResponse(stored, idempotencyKey,
                                 [input |-> body, data |-> data])
                        ELSE stored
                IN  Outcome(cached, Json(201, data))

\* GET /transactions
GetTransactionsHandler(store) == Outcome(store, Json(200, listTransactions(store)))

\* a JSON value of the seed body: a number, something that is no number, or
\* a missing field
Number(value) == [type |-> "number", value |-> value]

NotANumber == [type |-> "string", value |-> 0]

Undefined == [type |-> "undefined", value |-> 0]

\* 500 in mills
DefaultWallet == 500000

\* x ?? 500
OrDefault(x) == IF x = Undefined THEN Number(DefaultWallet) ELSE x

\* the txId 'initial' of the seed entries; transactions are numbered from 1
InitialTxId == 0

\* the two CASH entries of POST /seed/init
InitialEntries(walletA, walletB, createdAt) ==
    << Entry(<<InitialTxId, 1>>, "INITIAL", InitialTxId, ACCOUNTS_CASH("A"), "A",
             NoCategory, walletA, createdAt),
       Entry(<<InitialTxId, 2>>, "INITIAL", InitialTxId, ACCOUNTS_CASH("B"), "B",
             NoCategory, walletB, createdAt) >>

\* the three sample expenses of the demo mode: 120.00, 80.00 and 50.00
DemoInputs ==
    << [payerId |-> "A", amount |-> 120000, category |-> "food"],
       [payerId |-> "B", amount |-> 80000, category |-> "groceries"],
       [payerId |-> "A", amount |-> 50000, category |-> "transport"] >>

RECURSIVE AddDemoTransactions(_, _, _)
\* posts and stores DemoInputs[i..3]; the i-th gets the txId i
AddDemoTransactions(store, i, createdAt) ==
    IF i > Len(DemoInputs) THEN store
    ELSE AddDemoTransactions(
             addGroupExpense(store, DemoInputs[i],
                 postGroupExpense(DemoInputs[i], i, createdAt).entries),
             i + 1, createdAt)

\* POST /seed/init without the call of clear()
SeedInitHandler_KeepsHistory(store, isDemo, body, createdAt) ==
    LET walletA == OrDefault(body.walletA)
        walletB == OrDefault(body.walletB)
    IN  IF walletA.type # "number" \/ walletB.type # "number"
        THEN Outcome(store, ValidationError("walletA and walletB must be numbers"))
        ELSE IF walletA.value < 0 \/ walletB.value < 0
        THEN Outcome(store, ValidationError("Wallet balances cannot be negative"))
        ELSE
            LET seeded == addInitialEntries(store,
                              InitialEntries(walletA.value, walletB.value, createdAt))
                final == IF isDemo
                         THEN AddDemoTransactions(seeded, Len(store.transactions) + 1,
                                                  createdAt)
                         ELSE seeded
            IN  Outcome(final, Json(200, computeCompleteSummary(final.ledgerEntries)))

\* POST /seed/init calling clear() before it validates the wallets
SeedInitHandler_ClearsFirst(store, isDemo, body, createdAt) ==
    LET walletA == OrDefault(body.walletA)
        walletB == OrDefault(body.walletB)
    IN  IF walletA.type # "number" \/ walletB.type # "number"
        THEN Outcome(clear(store), ValidationError("walletA and walletB must be numbers"))
        ELSE IF walletA.value < 0 \/ walletB.value < 0
        THEN Outcome(clear(store), ValidationError("Wallet balances cannot be negative"))
        ELSE
            LET seeded == addInitialEntries(clear(store),
                              InitialEntries(walletA.value, walletB.value, createdAt))
                final == IF isDemo THEN AddDemoTransactions(seeded, 1, createdAt) ELSE seeded
            IN  Outcome(final, Json(200, computeCompleteSummary(final.ledgerEntries)))

\* POST /seed/init; createdAt stands for new Date()
SeedInitHandler(store, isDemo, body, createdAt) ==
    LET walletA == OrDefault(body.walletA)
        walletB == OrDefault(body.walletB)
    IN  IF walletA.type # "number" \/ walletB.type # "number"
        THEN Outcome(store, ValidationError("walletA and walletB must be numbers"))
        ELSE IF walletA.value < 0 \/ walletB.value < 0
        THEN Outcome(store, ValidationError("Wallet balances cannot be negative"))
        ELSE
            LET seeded == addInitialEntries(clear(store),
                              InitialEntries(walletA.value, walletB.value, createdAt))
                final == IF isDemo THEN AddDemoTransactions(seeded, 1, createdAt) ELSE seeded
            IN  Outcome(final, Json(200, computeCompleteSummary(final.ledgerEntries)))

\* GET /summary reporting the debtor as the user's counterparty
GetSummaryHandler_ReportsDebtor(store, userId) ==
    LET entries == getLedgerEntries(store)
        summary == computeCompleteSummary(entries)
        netDue == computeNetDue(entries)
        found == SelectSeq(summary.users, LAMBDA u : u.userId = userId)
    IN  IF found = <<>>
        THEN Outcome(store, ValidationError("User not found"))
        ELSE
            LET userSummary == found[1]
                otherUserId == IF userId = "A" THEN "B" ELSE "A"
                netPosition ==
                    [owes |-> netDue.owes,
                     amount |-> IF netDue.owes = userId THEN netDue.amount
                                ELSE IF netDue.owes = otherUserId THEN netDue.amount
                                ELSE 0]
            IN  Outcome(store, Json(200,
                    [userId |-> userSummary.userId,
                     walletBalance |-> userSummary.walletBalance,
                     budgetByCategory |-> userSummary.budgetByCategory,
                     netPosition |-> netPosition]))

\* GET /summary?userId=..., for a query the schema has parsed
GetSummaryHandler(store, userId) ==
    LET entries == getLedgerEntries(store)
        summary == computeCompleteSummary(entries)
        netDue == computeNetDue(entries)
        found == SelectSeq(summary.users, LAMBDA u : u.userId = userId)
    IN  IF found = <<>>
        THEN Outcome(store, ValidationError("User not found"))
        ELSE
            LET userSummary == found[1]
                otherUserId == IF userId = "A" THEN "B" ELSE "A"
                netPosition ==
                    [owes |-> IF netDue.owes = userId THEN otherUserId ELSE netDue.owes,
                     amount |-> IF netDue.owes = userId THEN netDue.amount
                                ELSE IF netDue.owes = otherUserId THEN netDue.amount
                                ELSE 0]
            IN  Outcome(store, Json(200,
                    [userId |-> userSummary.userId,
                     walletBalance |-> userSummary.walletBalance,
                     budgetByCategory |-> userSummary.budgetByCategory,
                     netPosition |-> netPosition]))

\* GET /users emptying the store it has read
GetUsersHandler_Consumes(store) ==
    Outcome(clear(store), Json(200, computeCompleteSummary(getLedgerEntries(store))))

\* GET /users without a userId query
GetUsersHandler(store) ==
    Outcome(store, Json(200, computeCompleteSummary(getLedgerEntries(store))))

----------------------------------------------------------------------------
(* The independent Oracle of the acceptance tests                           *)
(* (tests/acceptance/helpers/oracle.ts).  netDue is positive when B owes A. *)

\* new Oracle()
NoOracle ==
    [walletA |-> 0, walletB |-> 0,
     budgetA |-> [category \in Category |-> 0],
     budgetB |-> [category \in Category |-> 0],
     netDue |-> 0]

\* floor % 2 of JavaScript: the sign of the dividend
JsMod2(floor) == IF floor >= 0 THEN floor % 2 ELSE -((-floor) % 2)

\* Oracle.roundTo2: ties as the code computes them, else the nearest cent
Oracle_roundTo2(value) ==
    LET floor == value \div Cent
        remainder == value - floor * Cent
    IN  IF remainder = 5
        THEN (floor + JsMod2(floor)) * Cent
        ELSE MathRoundCents(value) * Cent

Oracle_setInitialWallets(state, walletA, walletB) ==
    [state EXCEPT !.walletA = Oracle_roundTo2(walletA),
                  !.walletB = Oracle_roundTo2(walletB)]

\* amount / 2 is exact in mills for the whole-cent amounts the test sends
Oracle_splitAmount(amount) ==
    LET half == amount \div 2
        roundedHalf == Oracle_roundTo2(half)
        remainder == amount - roundedHalf * 2
    IN  [shareA |-> roundedHalf, shareB |-> roundedHalf, remainder |-> remainder]

\* recordExpense crediting the payer's wallet
Oracle_recordExpense_Credits(state, payer, amount, category) ==
    IF amount <= 0 THEN state
    ELSE
        LET split == Oracle_splitAmount(amount)
        IN  [state EXCEPT
                !.walletA = IF payer = "A" THEN @ + amount ELSE @,
                !.walletB = IF payer = "A" THEN @ ELSE @ + amount,
                !.budgetA[category] = Oracle_roundTo2(@ + split.shareA),
                !.budgetB[category] = Oracle_roundTo2(@ + split.shareB),
                !.netDue = IF payer = "A"
                           THEN Oracle_roundTo2(@ + (split.shareB + split.remainder))
                           ELSE Oracle_roundTo2(@ - (split.shareA + split.remainder))]

\* a throw leaves the Oracle as it was
Oracle_recordExpense(state, payer, amount, category) ==
    IF amount <= 0 THEN state
    ELSE
        LET split == Oracle_splitAmount(amount)
        IN  [state EXCEPT
                !.walletA = IF payer = "A" THEN @ - amount ELSE @,
                !.walletB = IF payer = "A" THEN @ ELSE @ - amount,
                !.budgetA[category] = Oracle_roundTo2(@ + split.shareA),
                !.budgetB[category] = Oracle_roundTo2(@ + split.shareB),
                !.netDue = IF payer = "A"
                           THEN Oracle_roundTo2(@ + (split.shareB + split.remainder))
                           ELSE Oracle_roundTo2(@ - (split.shareA + split.remainder))]

Oracle_recordSettlement(state, from, to, amount) ==
    IF amount <= 0 \/ from = to THEN state
    ELSE [state EXCEPT
            !.walletA = IF from = "A" THEN @ - amount ELSE @ + amount,
            !.walletB = IF from = "A" THEN @ + amount ELSE @ - amount,
            !.netDue = IF from = "A" /\ to = "B"
                       THEN Oracle_roundTo2(@ + amount)
                       ELSE Oracle_roundTo2(@ - amount)]

Oracle_getNetDue(state) ==
    IF Abs(state.netDue) < Cent THEN [owes |-> NoUser, amount |-> 0]
    ELSE IF state.netDue > 0 THEN [owes |-> "B", amount |-> state.netDue]
    ELSE [owes |-> "A", amount |-> Abs(state.netDue)]

Oracle_getUserSummaries(state) ==
    [users |-> << [userId |-> "A",
                   walletBalance |-> Oracle_roundTo2(state.walletA),
                   budgetByCategory |-> state.budgetA],
                  [userId |-> "B",
                   walletBalance |-> Oracle_roundTo2(state.walletB),
                   budgetByCategory |-> state.budgetB] >>,
     netDue |-> Oracle_getNetDue(state)]

----------------------------------------------------------------------------
(* Direct calls of the library, as the unit tests make them *)

MaxLedgerCents == 6

\* the amounts the documentation and the tests use: 20.00, 20.01, 100.00,
\* 100.01, 100.03, 101.00
ExampleAmounts == {20000, 20010, 100000, 100010, 100030, 101000}

\* amounts that are not a whole number of cents: 0.001, 0.015, 100.001
SubCentAmounts == {1, 15, 100001}

LedgerAmounts ==
    {c * Cent : c \in (-1)..MaxLedgerCents} \cup SubCentAmounts \cup ExampleAmounts

MaxUuid == 2

NoCall ==
    [fn |-> "none", user |-> NoUser, other |-> NoUser, category |-> NoCategory,
     amount |-> 0, entries |-> <<>>]

NoResult == [error |-> NoError, entries |-> <<>>, perUserShare |-> 0, remainder |-> 0]

StoreInit ==
    /\ ledgerEntries = <<>>
    /\ transactions = <<>>
    /\ idempotencyMap = <<>>
    /\ now = 0
    /\ response = Json(0, <<>>)

NoClients ==
    /\ inflight = {}
    /\ replies = <<>>
    /\ oracle = NoOracle

InitLedger ==
    /\ StoreInit
    /\ call = NoCall
    /\ result = NoResult
    /\ NoClients

CallValidateAmount ==
    \E amount \in LedgerAmounts :
        /\ call' = [NoCall EXCEPT !.fn = "validateAmount", !.amount = amount]
        /\ result' = [NoResult EXCEPT !.error = validateAmount(amount)]
        /\ UNCHANGED <<storeVars, clientVars>>

CallSplitEqually ==
    \E amount \in LedgerAmounts :
        /\ call' = [NoCall EXCEPT !.fn = "splitEqually", !.amount = amount]
        /\ result' = [NoResult EXCEPT
                         !.error = splitEqually(amount).error,
                         !.perUserShare = splitEqually(amount).perUserShare,
                         !.remainder = splitEqually(amount).remainder]
        /\ UNCHANGED <<storeVars, clientVars>>

CallPostGroupExpense ==
    \E payerId \in UserId, category \in Category, amount \in LedgerAmounts,
       txId \in 1..MaxUuid, createdAt \in Times :
        LET input == [payerId |-> payerId, amount |-> amount, category |-> category]
            posted == postGroupExpense(input, txId, createdAt)
        IN  /\ call' = [NoCall EXCEPT !.fn = "postGroupExpense", !.user = payerId,
                                      !.category = category, !.amount = amount]
            /\ result' = [NoResult EXCEPT !.error = posted.error,
                                          !.entries = posted.entries]
            /\ UNCHANGED <<storeVars, clientVars>>

CallPostSettlement ==
    \E fromUserId \in UserId, toUserId \in UserId, amount \in LedgerAmounts,
       txId \in 1..MaxUuid, createdAt \in Times :
        LET input == [fromUserId |-> fromUserId, toUserId |-> toUserId, amount |-> amount]
            posted == postSettlement(input, txId, createdAt)
        IN  /\ call' = [NoCall EXCEPT !.fn = "postSettlement", !.user = fromUserId,
                                      !.other = toUserId, !.amount = amount]
            /\ result' = [NoResult EXCEPT !.error = posted.error,
                                          !.entries = posted.entries]
            /\ UNCHANGED <<storeVars, clientVars>>

\* the amounts of the entry sets handed to validateLedgerEntries: 0.02, 100.00
ValidatedAmounts == {2 * Cent, 100000}

\* entry sets as the ledger returns them
PostedSets ==
    { postGroupExpense([payerId |-> payerId, amount |-> amount, category |-> "food"],
                       1, 0).entries :
        payerId \in UserId, amount \in ValidatedAmounts }
    \cup
    { postSettlement([fromUserId |-> fromUserId,
                      toUserId |-> IF fromUserId = "A" THEN "B" ELSE "A",
                      amount |-> amount], 1, 0).entries :
        fromUserId \in UserId, amount \in ValidatedAmounts }

\* the entry set with the delta of its i-th entry changed by d
Bump(entries, i, d) == [entries EXCEPT ![i].delta = @ + d]

\* the entry set without its i-th entry
Drop(entries, i) == SubSeq(entries, 1, i - 1) \o SubSeq(entries, i + 1, Len(entries))

\* the entry set with every payable booked on the reversed pair
ReversePayables(entries) ==
    [k \in 1..Len(entries) |->
        IF entries[k].account[1] = "DUE_TO"
        THEN [entries[k] EXCEPT
                 !.account = ACCOUNTS_DUE_TO(entries[k].account[3], entries[k].account[2])]
        ELSE entries[k]]

\* what the tests hand to validateLedgerEntries: a posted set, or one with a
\* delta changed (by 0.001, by a cent, by two), with the change taken from
\* another entry or not, with an entry missing, or with the payable misbooked
EntrySets ==
    UNION { {entries}
            \cup { Bump(entries, i, d) :
                      i \in 1..Len(entries), d \in {1, Cent, -Cent} }
            \cup { Bump(Bump(entries, i, d), j, -d) :
                      i \in 1..Len(entries), j \in 1..Len(entries),
                      d \in {1, Cent, 2 * Cent} }
            \cup { Drop(entries, i) : i \in 1..Len(entries) }
            \cup { ReversePayables(entries) } :
            entries \in PostedSets }

CallValidateLedgerEntries ==
    \E entries \in EntrySets :
        /\ call' = [NoCall EXCEPT !.fn = "validateLedgerEntries", !.entries = entries]
        /\ result' = [NoResult EXCEPT !.error = validateLedgerEntries(entries)]
        /\ UNCHANGED <<storeVars, clientVars>>

NextLedger ==
    \/ CallValidateAmount
    \/ CallSplitEqually
    \/ CallPostGroupExpense
    \/ CallPostSettlement
    \/ CallValidateLedgerEntries

SpecLedger == InitLedger /\ [][NextLedger]_vars

----------------------------------------------------------------------------
(* The HTTP API as a state machine *)

MaxTx == 2

\* The request bodies: every well-formed combination of the values below,
\* and one body for each way the schema refuses a body.
ValidCategories == {"food", "groceries"}

\* "0.01" and "100.00"
ExpenseAmountStrings == {Money(1), Money(10000)}

\* "0.01", "49.99", "50.00" and "50.01"
SettleAmountStrings == {Money(1), Money(4999), Money(5000), Money(5001)}

\* an unknown user, an unknown category, "0.00", "0.5", "-1.00" and "1000000.01"
InvalidTransactionBodies ==
    { [payerId |-> "C", amount |-> Money(10000), category |-> "food"],
      [payerId |-> "A", amount |-> Money(10000), category |-> "rent"],
      [payerId |-> "A", amount |-> Money(0), category |-> "food"],
      [payerId |-> "A", amount |-> DecimalString(500, 1), category |-> "food"],
      [payerId |-> "A", amount |-> DecimalString(-1000, 2), category |-> "food"],
      [payerId |-> "A", amount |-> Money(100000001), category |-> "food"] }

\* the expense and the settlement of the documented scenario: A pays 120.00
\* for food, B settles 60.00
ScenarioTransactionBodies ==
    { [payerId |-> "A", amount |-> Money(12000), category |-> "food"] }

ScenarioSettlementBodies ==
    { [fromUserId |-> "B", toUserId |-> "A", amount |-> Money(6000)] }

ValidTransactionBodies ==
    { [payerId |-> p, amount |-> a, category |-> c] :
        p \in UserId, a \in ExpenseAmountStrings, c \in ValidCategories }
    \cup ScenarioTransactionBodies

\* an unknown user, "0.00", "50.001", and the two self-settlements
InvalidSettlementBodies ==
    { [fromUserId |-> "C", toUserId |-> "A", amount |-> Money(5000)],
      [fromUserId |-> "B", toUserId |-> "A", amount |-> Money(0)],
      [fromUserId |-> "B", toUserId |-> "A", amount |-> DecimalString(50001, 3)],
      [fromUserId |-> "A", toUserId |-> "A", amount |-> Money(1)],
      [fromUserId |-> "B", toUserId |-> "B", amount |-> Money(5000)] }

ValidSettlementBodies ==
    { [fromUserId |-> f, toUserId |-> IF f = "A" THEN "B" ELSE "A", amount |-> a] :
        f \in UserId, a \in SettleAmountStrings }
    \cup ScenarioSettlementBodies

\* A request is a body and the Idempotency-Key header: every well-formed
\* and every refused body without a key, some well-formed bodies with the
\* key "k1", and one with a key that is too long.
Request(body, key) == [body |-> body, key |-> key]

KeyedTransactionBodies ==
    { [payerId |-> "A", amount |-> Money(10000), category |-> "food"],
      [payerId |-> "B", amount |-> Money(10000), category |-> "food"],
      [payerId |-> "A", amount |-> Money(1), category |-> "food"] }

TransactionRequests ==
    { Request(body, NoKey) : body \in ValidTransactionBodies \cup InvalidTransactionBodies }
    \cup { Request(body, "k1") : body \in KeyedTransactionBodies }
    \cup { Request([payerId |-> "A", amount |-> Money(10000), category |-> "food"],
                   LongKey) }

KeyedSettlementBodies ==
    { [fromUserId |-> "B", toUserId |-> "A", amount |-> Money(1)],
      [fromUserId |-> "B", toUserId |-> "A", amount |-> Money(5000)],
      [fromUserId |-> "B", toUserId |-> "A", amount |-> Money(5001)],
      [fromUserId |-> "A", toUserId |-> "B", amount |-> Money(5000)] }

SettlementRequests ==
    { Request(body, NoKey) : body \in ValidSettlementBodies \cup InvalidSettlementBodies }
    \cup { Request(body, "k1") : body \in KeyedSettlementBodies }
    \cup { Request([fromUserId |-> "B", toUserId |-> "A", amount |-> Money(5000)],
                   LongKey) }

\* The seed requests: the defaults with and without the demo data, 0.004
\* (no whole number of cents) with 500.00, a negative number, and a value
\* that is no number.
SeedRequest(isDemo, walletA, walletB) ==
    [isDemo |-> isDemo, body |-> [walletA |-> walletA, walletB |-> walletB]]

SeedRequests ==
    { SeedRequest(FALSE, Undefined, Undefined),
      SeedRequest(TRUE, Undefined, Undefined),
      SeedRequest(FALSE, Number(4), Number(DefaultWallet)),
      SeedRequest(FALSE, Number(-1000), Undefined),
      SeedRequest(TRUE, Undefined, NotANumber) }

\* uuidv4(): an identifier no stored transaction carries
NextUuid == Len(transactions) + 1

\* new Date(): the clock never runs backwards
ClockReads == {t \in Times : t >= now}

\* now is the clock value of the last posting or seed the store has taken
StoreApply(outcome, createdAt) ==
    /\ ledgerEntries' = outcome.store.ledgerEntries
    /\ transactions' = outcome.store.transactions
    /\ idempotencyMap' = outcome.store.idempotencyMap
    /\ response' = outcome.response
    /\ now' = IF outcome.store.ledgerEntries # ledgerEntries THEN createdAt ELSE now

Apply(outcome, createdAt) ==
    /\ StoreApply(outcome, createdAt)
    /\ UNCHANGED <<call, result, clientVars>>

\* the model stops accepting postings after MaxTx transactions
WithinBound(outcome) ==
    Len(outcome.store.transactions) > Len(transactions) => Len(transactions) < MaxTx

\* A request is handled within one tick of the clock: every new Date() of
\* one handler run returns the same value.
PostTransactions ==
    \E req \in TransactionRequests, createdAt \in ClockReads :
        \E outcome \in
              {PostTransactionsHandler(CurrentStore, req.body, req.key, NextUuid, createdAt)} :
            WithinBound(outcome) /\ Apply(outcome, createdAt)

PostSettle ==
    \E req \in SettlementRequests, createdAt \in ClockReads :
        \E outcome \in
              {PostSettleHandler(CurrentStore, req.body, req.key, NextUuid, createdAt)} :
            WithinBound(outcome) /\ Apply(outcome, createdAt)

PostSeedInit ==
    \E req \in SeedRequests, createdAt \in ClockReads :
        \E outcome \in {SeedInitHandler(CurrentStore, req.isDemo, req.body, createdAt)} :
            Apply(outcome, createdAt)

GetTransactions ==
    \E outcome \in {GetTransactionsHandler(CurrentStore)} : Apply(outcome, now)

Init ==
    /\ StoreInit
    /\ call = NoCall
    /\ result = NoResult
    /\ NoClients

Next == PostTransactions \/ PostSettle \/ PostSeedInit \/ GetTransactions

Spec == Init /\ [][Next]_vars

----------------------------------------------------------------------------
(* Concurrent clients: requests are received in any order and wait for the  *)
(* event loop; a handler is one synchronous function (no await), so the     *)
(* event loop runs it to completion before it takes the next request.       *)

MaxClients == 3

Clients == 1..MaxClients

\* what the clients send: an expense and a settlement, each with a key of
\* its own, an expense that reuses the key of the first with another body,
\* and a settlement without a key
ConcurrentRequests ==
    { [route |-> "POST /transactions", key |-> "k1",
       body |-> [payerId |-> "A", amount |-> Money(10000), category |-> "food"]],
      [route |-> "POST /transactions", key |-> "k1",
       body |-> [payerId |-> "B", amount |-> Money(10000), category |-> "food"]],
      [route |-> "POST /settle", key |-> "k2",
       body |-> [fromUserId |-> "B", toUserId |-> "A", amount |-> Money(5000)]],
      [route |-> "POST /settle", key |-> NoKey,
       body |-> [fromUserId |-> "B", toUserId |-> "A", amount |-> Money(5000)]] }

\* a client sends a request; it waits in the event loop's queue
Receive ==
    \E client \in Clients, req \in ConcurrentRequests :
        /\ client \notin DOMAIN replies
        /\ \A r \in inflight : r.client # client
        /\ inflight' = inflight \cup {[client |-> client, request |-> req]}
        /\ UNCHANGED <<storeVars, call, result, replies, oracle>>

\* the handler's res.status(..).json(..) answers the client
Answer(r, outcome) ==
    /\ inflight' = inflight \ {r}
    /\ replies' = [c \in (DOMAIN replies) \cup {r.client} |->
                      IF c = r.client
                      THEN [request |-> r.request, response |-> outcome.response]
                      ELSE replies[c]]
    /\ UNCHANGED <<call, result, oracle>>

\* the event loop runs the handler of one waiting request, whichever it is
HandleTransactions ==
    \E r \in inflight, createdAt \in ClockReads :
        /\ r.request.route = "POST /transactions"
        /\ \E outcome \in {PostTransactionsHandler(CurrentStore, r.request.body,
                                 r.request.key, NextUuid, createdAt)} :
              StoreApply(outcome, createdAt) /\ Answer(r, outcome)

HandleSettle ==
    \E r \in inflight, createdAt \in ClockReads :
        /\ r.request.route = "POST /settle"
        /\ \E outcome \in {PostSettleHandler(CurrentStore, r.request.body,
                                 r.request.key, NextUuid, createdAt)} :
              StoreApply(outcome, createdAt) /\ Answer(r, outcome)

NextConcurrent == Receive \/ HandleTransactions \/ HandleSettle

SpecConcurrent == Init /\ [][NextConcurrent]_vars

----------------------------------------------------------------------------
(* The property test (tests/acceptance/property.test.ts): the API and the   *)
(* Oracle are reset to 500 / 500, random expenses and settlements are sent, *)
(* and the Oracle records each one the API answers with 201.                *)

MaxActions == 3

\* fc.integer({min: 1, max: 20000}) cents: 0.01, 0.02, 0.03, 1.00, 200.00
TestExpenseCents == {1, 2, 3, 100, 20000}

\* fc.integer({min: 1, max: 10000}) cents: 0.01, 0.50, 100.00
TestSettlementCents == {1, 50, 10000}

TestCategories == {"food", "other"}

\* body: JSON.stringify({ walletA: 500, walletB: 500 })
TestSeedBody == [walletA |-> Number(DefaultWallet), walletB |-> Number(DefaultWallet)]

\* beforeEach, on a server just started
InitProperty ==
    /\ \E outcome \in {SeedInitHandler(Store(<<>>, <<>>, <<>>), FALSE, TestSeedBody, 0)} :
          /\ ledgerEntries = outcome.store.ledgerEntries
          /\ transactions = outcome.store.transactions
          /\ idempotencyMap = outcome.store.idempotencyMap
          /\ response = outcome.response
    /\ now = 0
    /\ call = NoCall
    /\ result = NoResult
    /\ inflight = {}
    /\ replies = <<>>
    /\ oracle = Oracle_setInitialWallets(NoOracle, DefaultWallet, DefaultWallet)

\* the start of a run: both the Oracle and the API are reset
TestReset ==
    \E createdAt \in ClockReads :
        \E outcome \in {SeedInitHandler(CurrentStore, FALSE, TestSeedBody, createdAt)} :
            /\ StoreApply(outcome, createdAt)
            /\ oracle' = Oracle_setInitialWallets(NoOracle, DefaultWallet, DefaultWallet)
            /\ UNCHANGED <<call, result, inflight, replies>>

\* the test sends no more than MaxActions requests the API accepts
WithinActions(outcome) ==
    Len(outcome.store.transactions) > Len(transactions) => Len(transactions) < MaxActions

TestExpense ==
    \E payer \in UserId, cents \in TestExpenseCents, category \in TestCategories,
       createdAt \in ClockReads :
        \E outcome \in {PostTransactionsHandler(CurrentStore,
                            [payerId |-> payer, amount |-> Money(cents),
                             category |-> category],
                            NoKey, NextUuid, createdAt)} :
            /\ WithinActions(outcome)
            /\ StoreApply(outcome, createdAt)
            /\ oracle' = IF outcome.response.status = 201
                         THEN Oracle_recordExpense(oracle, payer, cents * Cent, category)
                         ELSE oracle
            /\ UNCHANGED <<call, result, inflight, replies>>

\* a settlement is sent only when the Oracle says that much is owed
TestSettlement ==
    \E from \in UserId, cents \in TestSettlementCents, createdAt \in ClockReads :
        LET to == IF from = "A" THEN "B" ELSE "A"
            currentNetDue == Oracle_getNetDue(oracle)
        IN  /\ currentNetDue.owes = from
            /\ cents * Cent <= currentNetDue.amount
            /\ \E outcome \in {PostSettleHandler(CurrentStore,
                                    [fromUserId |-> from, toUserId |-> to,
                                     amount |-> Money(cents)],
                                    NoKey, NextUuid, createdAt)} :
                  /\ WithinActions(outcome)
                  /\ StoreApply(outcome, createdAt)
                  /\ oracle' = IF outcome.response.status = 201
                               THEN Oracle_recordSettlement(oracle, from, to, cents * Cent)
                               ELSE oracle
                  /\ UNCHANGED <<call, result, inflight, replies>>

\* the final GET /users of a run
TestGetUsers ==
    \E outcome \in {GetUsersHandler(CurrentStore)} :
        /\ StoreApply(outcome, now)
        /\ UNCHANGED <<call, result, clientVars>>

NextProperty == TestReset \/ TestExpense \/ TestSettlement \/ TestGetUsers

SpecProperty == InitProperty /\ [][NextProperty]_vars

----------------------------------------------------------------------------
(* Properties of the ledger engine and the money module (SpecLedger) *)

\* a positive whole number of cents
WholeCents(amount) == amount > 0 /\ amount % Cent = 0

OddCents(amount) == WholeCents(amount) /\ (amount \div Cent) % 2 = 1

Other(userId) == IF userId = "A" THEN "B" ELSE "A"

PostedGroupExpense ==
    call.fn = "postGroupExpense" /\ result.error = NoError /\ result.entries # <<>>

PostedSettlement ==
    call.fn = "postSettlement" /\ result.error = NoError /\ result.entries # <<>>

\* the deltas of the entries of the set that are booked on the account
DeltasOn(entries, account) ==
    SelectSeq(entries, LAMBDA entry : entry.account = account)

\* C1 (Balance): every entry set that postGroupExpense or postSettlement
\* returns for a whole-cent amount has deltas that sum to exactly 0.
C1_Balance ==
    (PostedGroupExpense \/ PostedSettlement) => SumDelta(result.entries) = 0

C1_Witness ==
    /\ PostedGroupExpense
    /\ call.amount = 101000
    /\ call.user = "B"
    /\ Len(result.entries) = 5

\* C2 (Posting never fails on valid input): for every amount validateAmount
\* accepts, postGroupExpense returns 5 entries with one txId and one
\* createdAt, postSettlement with from # to returns 4, and neither throws.
C2_PostingNeverFails ==
    /\ (call.fn = "postGroupExpense" /\ validateAmount(call.amount) = NoError) =>
          /\ result.error = NoError
          /\ Len(result.entries) = 5
          /\ \A i \in 1..Len(result.entries) :
                /\ result.entries[i].txId = result.entries[1].txId
                /\ result.entries[i].createdAt = result.entries[1].createdAt
    /\ (call.fn = "postSettlement" /\ validateAmount(call.amount) = NoError
            /\ call.user # call.other) =>
          /\ result.error = NoError
          /\ Len(result.entries) = 4

\* C3 (Remainder placement, the rule of the specification): a group expense
\* of an odd number of cents C posts EXPENSE deltas of floor(C/2) cents for
\* both parties, a DUE_FROM delta of floor(C/2)+1 cents for the payer and the
\* negated DUE_TO delta for the other party.
C3_RemainderPlacement ==
    (call.fn = "postGroupExpense" /\ OddCents(call.amount)) =>
        LET half == ((call.amount \div Cent) \div 2) * Cent
            payer == call.user
            other == Other(call.user)
        IN  /\ result.error = NoError
            /\ SumDelta(DeltasOn(result.entries, ACCOUNTS_EXPENSE(payer, call.category))) = half
            /\ SumDelta(DeltasOn(result.entries, ACCOUNTS_EXPENSE(other, call.category))) = half
            /\ SumDelta(DeltasOn(result.entries, ACCOUNTS_DUE_FROM(payer, other))) = half + Cent
            /\ SumDelta(DeltasOn(result.entries, ACCOUNTS_DUE_TO(other, payer))) = -(half + Cent)

\* C4 (Payer gets the extra cent, the rule of the README and the integration
\* tests): a group expense of an odd number of cents C raises the payer's
\* budget by ceil(C/2) cents, the other party's by floor(C/2) cents, and the
\* debt it creates is floor(C/2) cents owed by the other party.
C4_PayerGetsExtraCent ==
    (call.fn = "postGroupExpense" /\ OddCents(call.amount)) =>
        LET half == ((call.amount \div Cent) \div 2) * Cent
            payer == call.user
            other == Other(call.user)
        IN  /\ result.error = NoError
            /\ computeBudgetByCategory(payer, result.entries)[call.category] = half + Cent
            /\ computeBudgetByCategory(other, result.entries)[call.category] = half
            /\ computeNetDue(result.entries) =
                  IF half = 0 THEN [owes |-> NoUser, amount |-> 0]
                  ELSE [owes |-> other, amount |-> half]

C6_Mirroring ==
    (PostedGroupExpense \/ PostedSettlement) =>
        LET dueFrom == SelectSeq(result.entries, LAMBDA e : e.account[1] = "DUE_FROM")
            dueTo == SelectSeq(result.entries, LAMBDA e : e.account[1] = "DUE_TO")
        IN  /\ Len(dueFrom) = 1
            /\ Len(dueTo) = 1
            /\ dueTo[1].account =
                  ACCOUNTS_DUE_TO(dueFrom[1].account[3], dueFrom[1].account[2])
            /\ dueTo[1].delta = -dueFrom[1].delta

C6_Witness ==
    /\ PostedSettlement
    /\ call.user = "B"
    /\ call.other = "A"
    /\ call.amount = 3 * Cent
    /\ Len(result.entries) = 4

----------------------------------------------------------------------------
(* Properties of the HTTP API (Spec) *)

netDue == computeNetDue(ledgerEntries)

\* what POST /settle does with the request in the current state
SettleOutcome(req) == PostSettleHandler(CurrentStore, req.body, req.key, NextUuid, now)

Posts(outcome) == outcome.store.ledgerEntries # ledgerEntries

\* the settlement guard of the claim C7
GuardHolds(req) ==
    /\ netDue.owes = req.body.fromUserId
    /\ parseFloat(req.body.amount) <= netDue.amount

WellFormed(req) == SettlementInputSchema(req.body) = NoError

\* the request is not decided by its Idempotency-Key: it carries none, or a
\* valid one under which nothing is stored
NotDecidedByKey(req) ==
    \/ req.key = NoKey
    \/ IdempotencyKeySchema(req.key) /\ ~hasIdempotencyResponse(CurrentStore, req.key)

IsOverSettlementError(reply) ==
    /\ reply.status = 422
    /\ reply.body.type = "validation-error"
    /\ reply.body.detail[1] \in
          {"Over-settlement: No money is owed between users",
           "Over-settlement: does not owe, cannot settle in this direction",
           "Over-settlement: Attempted to settle more than is owed"}

LastResponseIsSettlement ==
    /\ response.status = 201
    /\ "settlement" \in DOMAIN response.body

C8_NonNegativeDebt ==
    \A req \in SettlementRequests :
        LET outcome == SettleOutcome(req)
            a == parseFloat(req.body.amount)
            after == computeNetDue(outcome.store.ledgerEntries)
        IN  Posts(outcome) =>
                /\ netDue.owes = req.body.fromUserId
                /\ a <= netDue.amount
                /\ after = IF a < netDue.amount
                           THEN [owes |-> netDue.owes, amount |-> netDue.amount - a]
                           ELSE [owes |-> NoUser, amount |-> 0]
                /\ after.owes # Other(netDue.owes)

\* a partial settlement has been accepted: 49.99 of a debt of 50.00
C8_Witness ==
    /\ LastResponseIsSettlement
    /\ response.body.settlement.amount = 49990
    /\ response.body.settlement.fromUserId = "A"
    /\ netDue = [owes |-> "A", amount |-> Cent]

Budgets(entries) == [u \in UserId |-> computeBudgetByCategory(u, entries)]

\* C9 (Budget isolation): no stored settlement entry is booked on an EXPENSE
\* account, and a POST /settle leaves every party's budgetByCategory, in
\* every category, as it was.
C9_BudgetIsolation ==
    /\ \A i \in 1..Len(ledgerEntries) :
          ledgerEntries[i].txType = "SETTLEMENT" => ledgerEntries[i].account[1] # "EXPENSE"
    /\ \A req \in SettlementRequests :
          Budgets(SettleOutcome(req).store.ledgerEntries) = Budgets(ledgerEntries)

\* a settlement has been accepted while budgets were not zero
C9_Witness ==
    /\ LastResponseIsSettlement
    /\ Budgets(ledgerEntries)["A"]["groceries"] = 50000
    /\ Budgets(ledgerEntries)["B"]["groceries"] = 50000
    /\ \E i \in 1..Len(ledgerEntries) : ledgerEntries[i].txType = "SETTLEMENT"

\* the amount the last seed gave the party: the delta of its INITIAL entry
Seeded(userId) ==
    SumDelta(SelectSeq(ledgerEntries, LAMBDA e :
        e.txType = "INITIAL" /\ e.userId = userId))

\* what the transaction summary says the transaction did to the party's cash
CashEffect(tx, userId) ==
    IF tx.type = "GROUP"
    THEN (IF tx.payerId = userId THEN -tx.amount ELSE 0)
    ELSE (IF tx.fromUserId = userId THEN -tx.amount ELSE 0)
         + (IF tx.toUserId = userId THEN tx.amount ELSE 0)

RECURSIVE CashEffects(_, _)
CashEffects(txs, userId) ==
    IF txs = <<>> THEN 0
    ELSE CashEffect(txs[1], userId) + CashEffects(Tail(txs), userId)

CashDeltas(userId) ==
    SumDelta(SelectSeq(ledgerEntries, LAMBDA e : e.account = ACCOUNTS_CASH(userId)))

\* C10 (Wallet conservation): walletBalance(p) equals the sum of all CASH(p)
\* deltas, which is p's seeded amount minus every group expense p paid,
\* minus every settlement p sent, plus every settlement p received.
C10_WalletConservation ==
    \A p \in UserId :
        /\ computeWalletBalance(p, ledgerEntries) = CashDeltas(p)
        /\ CashDeltas(p) = Seeded(p) + CashEffects(transactions, p)

\* C10 up to the rounding of the projection
C10_WalletConservationRounded ==
    \A p \in UserId :
        /\ computeWalletBalance(p, ledgerEntries) = roundTo2Decimals(CashDeltas(p))
        /\ CashDeltas(p) = Seeded(p) + CashEffects(transactions, p)

----------------------------------------------------------------------------
(* The documented scenario *)

\* the store holds a seed of 500.00 / 500.00 and then exactly these transactions
SeededWith500 ==
    /\ Len(ledgerEntries) >= 2
    /\ ledgerEntries[1].txType = "INITIAL"
    /\ ledgerEntries[2].txType = "INITIAL"
    /\ Seeded("A") = DefaultWallet
    /\ Seeded("B") = DefaultWallet

IsScenarioExpense(tx) ==
    /\ tx.type = "GROUP"
    /\ tx.payerId = "A"
    /\ tx.amount = 120000
    /\ tx.category = "food"

IsScenarioSettlement(tx) ==
    /\ tx.type = "SETTLEMENT"
    /\ tx.fromUserId = "B"
    /\ tx.toUserId = "A"
    /\ tx.amount = 60000

AfterScenarioExpense ==
    /\ SeededWith500
    /\ Len(transactions) = 1
    /\ IsScenarioExpense(transactions[1])

AfterScenarioSettlement ==
    /\ SeededWith500
    /\ Len(transactions) = 2
    /\ IsScenarioExpense(transactions[1])
    /\ IsScenarioSettlement(transactions[2])

\* the budgets of a party whose only spending is 60.00 on food
SixtyOnFood == [category \in Category |-> IF category = "food" THEN 60000 ELSE 0]

\* C11 (End-to-end scenario): from wallets seeded to 500/500, after A posts
\* a 120.00 food expense wallet(A) = 380.00, wallet(B) = 500.00, both food
\* budgets are 60.00 and netDue = {owes: B, amount: 60.00}; after B then
\* settles 60.00 to A both wallets are 440.00, the budgets are unchanged and
\* netDue = {owes: null, amount: 0}.
C11_Scenario ==
    LET summary == computeCompleteSummary(ledgerEntries)
    IN  /\ AfterScenarioExpense =>
              /\ summary.users[1].walletBalance = 380000
              /\ summary.users[2].walletBalance = 500000
              /\ summary.users[1].budgetByCategory = SixtyOnFood
              /\ summary.users[2].budgetByCategory = SixtyOnFood
              /\ summary.netDue = [owes |-> "B", amount |-> 60000]
              /\ \A req \in SettlementRequests :
                    (req.body \in ScenarioSettlementBodies /\ req.key = NoKey) =>
                        SettleOutcome(req).response.status = 201
        /\ AfterScenarioSettlement =>
              /\ summary.users[1].walletBalance = 440000
              /\ summary.users[2].walletBalance = 440000
              /\ summary.users[1].budgetByCategory = SixtyOnFood
              /\ summary.users[2].budgetByCategory = SixtyOnFood
              /\ summary.netDue = [owes |-> NoUser, amount |-> 0]
              /\ (response.status = 201 /\ "settlement" \in DOMAIN response.body) =>
                    response.body.summary = summary

\* the scenario has run to its end and the settlement has just been answered
C11_Witness ==
    /\ AfterScenarioSettlement
    /\ response.status = 201
    /\ "settlement" \in DOMAIN response.body
    /\ IsScenarioSettlement(response.body.settlement)

----------------------------------------------------------------------------
(* Failures *)

SelfSettlementMessage == "Cannot settle with yourself"

\* C12 (Self-settlement): postSettlement with from = to and an amount it
\* accepts (for instance A to A for 10.00) fails with 'Cannot settle with
\* yourself' and returns no entries; POST /settle refuses such a request
\* with that message, appends nothing, and netDue afterwards is netDue before.
C12_SelfSettlement ==
    /\ \A u \in UserId, amount \in {a \in LedgerAmounts : WholeCents(a)} :
          postSettlement([fromUserId |-> u, toUserId |-> u, amount |-> amount],
                         NextUuid, now)
              = Thrown(SelfSettlementMessage)
    /\ \A req \in SettlementRequests :
          (/\ req.body.fromUserId = req.body.toUserId
           /\ UserIdSchema(req.body.fromUserId)
           /\ MoneySchema(req.body.amount)) =>
              LET outcome == SettleOutcome(req)
              IN  /\ outcome.response = ValidationError(SelfSettlementMessage)
                  /\ outcome.store = CurrentStore
                  /\ computeNetDue(outcome.store.ledgerEntries) = netDue

\* a self-settlement has just been refused while a debt was open
C12_Witness ==
    /\ response = ValidationError(SelfSettlementMessage)
    /\ netDue.owes # NoUser
    /\ Len(transactions) > 0

----------------------------------------------------------------------------
(* Idempotency *)

\* what POST /transactions does with the request in the current state
TransactionOutcome(req) ==
    PostTransactionsHandler(CurrentStore, req.body, req.key, NextUuid, now)

\* the request repeats an accepted request: same key, identical body
IsReplay(req) ==
    /\ req.key # NoKey
    /\ hasIdempotencyResponse(CurrentStore, req.key)
    /\ getIdempotencyResponse(CurrentStore, req.key).input = req.body

\* the transaction summary in a cached response
CachedTransaction(data) ==
    IF "transaction" \in DOMAIN data THEN data.transaction ELSE data.settlement

\* the replay of a request answers with the cached response and posts nothing
AnswersFromCache(outcome, store, key) ==
    /\ outcome.response = Json(200, getIdempotencyResponse(store, key).data)
    /\ outcome.store = store

\* C13 (Idempotent replay): a POST /transactions or POST /settle with an
\* Idempotency-Key already used by an accepted request with an identical body
\* returns 200 with exactly the original response and posts nothing (the
\* stored transactions and ledger entries are unchanged), so that retries
\* leave exactly one transaction for that key.
C13_IdempotentReplay ==
    /\ \A req \in TransactionRequests :
          LET outcome == TransactionOutcome(req)
          IN  /\ IsReplay(req) => AnswersFromCache(outcome, CurrentStore, req.key)
              /\ (req.key # NoKey /\ outcome.response.status = 201) =>
                    LET again == PostTransactionsHandler(outcome.store, req.body, req.key,
                                     Len(outcome.store.transactions) + 1, now)
                    IN  /\ again.response = Json(200, outcome.response.body)
                        /\ again.store = outcome.store
    /\ \A req \in SettlementRequests :
          LET outcome == SettleOutcome(req)
          IN  /\ IsReplay(req) => AnswersFromCache(outcome, CurrentStore, req.key)
              /\ (req.key # NoKey /\ outcome.response.status = 201) =>
                    LET again == PostSettleHandler(outcome.store, req.body, req.key,
                                     Len(outcome.store.transactions) + 1, now)
                    IN  /\ again.response = Json(200, outcome.response.body)
                        /\ again.store = outcome.store
    /\ \A key \in DOMAIN idempotencyMap :
          Cardinality({i \in 1..Len(transactions) :
              transactions[i] = CachedTransaction(idempotencyMap[key].data)}) = 1

\* a retry of the keyed expense has just been answered from the cache, and
\* the store holds the one transaction of the first attempt
C13_Witness ==
    /\ response.status = 200
    /\ "k1" \in DOMAIN idempotencyMap
    /\ response.body = idempotencyMap["k1"].data
    /\ Len(transactions) = 1
    /\ Len(ledgerEntries) = 5

\* the request reuses the key of an accepted request with another body
IsConflict(req) ==
    /\ req.key # NoKey
    /\ hasIdempotencyResponse(CurrentStore, req.key)
    /\ getIdempotencyResponse(CurrentStore, req.key).input # req.body

IsConflictResponse(reply) ==
    /\ reply.status = 409
    /\ reply.body.type = "idempotency-conflict"
    /\ reply.body.status = 409

\* C14 (Idempotency conflict): a well-formed POST with an Idempotency-Key
\* already used by an accepted request with a different body is answered 409
\* (idempotency-conflict), posts nothing, and leaves the cached response of
\* the key unchanged.
C14_IdempotencyConflict ==
    /\ \A req \in TransactionRequests :
          (IsConflict(req) /\ GroupExpenseInputSchema(req.body)) =>
              LET outcome == TransactionOutcome(req)
              IN  /\ IsConflictResponse(outcome.response)
                  /\ outcome.store.ledgerEntries = ledgerEntries
                  /\ outcome.store.transactions = transactions
                  /\ outcome.store.idempotencyMap = idempotencyMap
    /\ \A req \in SettlementRequests :
          (IsConflict(req) /\ WellFormed(req)) =>
              LET outcome == SettleOutcome(req)
              IN  /\ IsConflictResponse(outcome.response)
                  /\ outcome.store.ledgerEntries = ledgerEntries
                  /\ outcome.store.transactions = transactions
                  /\ outcome.store.idempotencyMap = idempotencyMap

\* a conflict has just been answered; the key still holds the response of
\* the one transaction that was posted with it
C14_Witness ==
    /\ IsConflictResponse(response)
    /\ "k1" \in DOMAIN idempotencyMap
    /\ Len(transactions) = 1
    /\ CachedTransaction(idempotencyMap["k1"].data) = transactions[1]

----------------------------------------------------------------------------
(* Seeding and reset *)

\* what POST /seed/init does with the request in the current state
SeedOutcome(req) == SeedInitHandler(CurrentStore, req.isDemo, req.body, now)

\* the request is accepted and does not ask for the demo data
IsPlainReset(req) == ~req.isDemo /\ SeedOutcome(req).response.status = 200

SeededAmount(req, userId) ==
    IF userId = "A" THEN OrDefault(req.body.walletA).value
    ELSE OrDefault(req.body.walletB).value

ZeroBudgets == [category \in Category |-> 0]

\* the entries are the two seed entries: one CASH entry per party
TwoSeedEntries(entries, req) ==
    /\ Len(entries) = 2
    /\ \A i \in 1..2 :
          /\ entries[i].txType = "INITIAL"
          /\ entries[i].account = ACCOUNTS_CASH(entries[i].userId)
          /\ entries[i].delta = SeededAmount(req, entries[i].userId)
    /\ entries[1].userId = "A"
    /\ entries[2].userId = "B"

\* C15 (Full reset): an accepted POST /seed/init (without the demo data)
\* discards all ledger entries, transaction summaries and cached idempotency
\* responses together and then holds exactly the two seed CASH entries;
\* afterwards the wallets equal the seeded amounts (500/500 by default),
\* every budget is 0, netDue is {owes: null, amount: 0}, the transaction list
\* is empty, and a previously used Idempotency-Key is processed as a new
\* request (201 for the expense that used it, no replay and no conflict for
\* a settlement).
C15_FullReset ==
    \A req \in SeedRequests :
        IsPlainReset(req) =>
            LET after == SeedOutcome(req).store
            IN  /\ TwoSeedEntries(after.ledgerEntries, req)
                /\ after.transactions = <<>>
                /\ after.idempotencyMap = <<>>
                /\ \A p \in UserId :
                      /\ computeWalletBalance(p, after.ledgerEntries) = SeededAmount(req, p)
                      /\ req.body = [walletA |-> Undefined, walletB |-> Undefined] =>
                            computeWalletBalance(p, after.ledgerEntries) = DefaultWallet
                      /\ computeBudgetByCategory(p, after.ledgerEntries) = ZeroBudgets
                /\ computeNetDue(after.ledgerEntries) = [owes |-> NoUser, amount |-> 0]
                /\ listTransactions(after) = <<>>
                /\ \A again \in TransactionRequests :
                      IsReplay(again) =>
                          PostTransactionsHandler(after, again.body, again.key, 1, now)
                              .response.status = 201
                /\ \A again \in SettlementRequests :
                      (IsReplay(again) \/ IsConflict(again)) =>
                          PostSettleHandler(after, again.body, again.key, 1, now)
                              .response.status \notin {200, 409}

\* C16 as stated: seeding creates exactly two CASH entries and leaves the
\* ledger entries, transaction summaries and idempotency responses that
\* existed before unchanged.
C16_SeedLeavesHistory ==
    \A req \in SeedRequests :
        IsPlainReset(req) =>
            LET after == SeedOutcome(req).store
            IN  /\ Len(after.ledgerEntries) = Len(ledgerEntries) + 2
                /\ SubSeq(after.ledgerEntries, 1, Len(ledgerEntries)) = ledgerEntries
                /\ TwoSeedEntries(SubSeq(after.ledgerEntries, Len(ledgerEntries) + 1,
                                         Len(ledgerEntries) + 2), req)
                /\ after.transactions = transactions
                /\ after.idempotencyMap = idempotencyMap

\* C16 as amended: an accepted POST /seed/init (without the demo data) first
\* discards the ledger entries, transaction summaries and idempotency
\* responses and then creates exactly two CASH entries, one per party with
\* the seeded amount, and nothing else; a refused one changes nothing;
\* EventStore.addInitialEntries by itself appends the entries it is given
\* and leaves the stored entries, summaries and responses unchanged.
C16_SeedAfterClear ==
    \A req \in SeedRequests :
        LET outcome == SeedOutcome(req)
            entries == InitialEntries(SeededAmount(req, "A"), SeededAmount(req, "B"), now)
            added == addInitialEntries(CurrentStore, entries)
        IN  /\ IsPlainReset(req) =>
                  /\ TwoSeedEntries(outcome.store.ledgerEntries, req)
                  /\ outcome.store.ledgerEntries = entries
                  /\ outcome.store.transactions = <<>>
                  /\ outcome.store.idempotencyMap = <<>>
            /\ outcome.response.status # 200 => outcome.store = CurrentStore
            /\ added.ledgerEntries = ledgerEntries \o entries
            /\ added.transactions = transactions
            /\ added.idempotencyMap = idempotencyMap

\* a seed has just been accepted: the store holds the two seed entries alone
C16_Witness ==
    /\ response.status = 200
    /\ DOMAIN response.body = {"users", "netDue"}
    /\ Len(ledgerEntries) = 2
    /\ ledgerEntries[1].txType = "INITIAL"
    /\ ledgerEntries[2].account = ACCOUNTS_CASH("B")
    /\ ledgerEntries[1].createdAt = 1
    /\ transactions = <<>>
    /\ idempotencyMap = <<>>

----------------------------------------------------------------------------
(* Failures leave the store alone *)

IsErrorResponse(reply) == reply.status \notin {200, 201}

\* C17 (Fail cleanly, mutate nothing): every POST /transactions or
\* POST /settle that ends in an error (schema validation failure, invalid
\* amount, invalid party, self-settlement, over-settlement, idempotency
\* conflict, or an error thrown by the ledger) leaves the ledger entries, the
\* transaction list and the idempotency cache exactly as they were.
C17_FailCleanly ==
    /\ \A req \in TransactionRequests :
          LET outcome == TransactionOutcome(req)
          IN  IsErrorResponse(outcome.response) =>
                  /\ outcome.store.ledgerEntries = ledgerEntries
                  /\ outcome.store.transactions = transactions
                  /\ outcome.store.idempotencyMap = idempotencyMap
    /\ \A req \in SettlementRequests :
          LET outcome == SettleOutcome(req)
          IN  IsErrorResponse(outcome.response) =>
                  /\ outcome.store.ledgerEntries = ledgerEntries
                  /\ outcome.store.transactions = transactions
                  /\ outcome.store.idempotencyMap = idempotencyMap
    /\ \A req \in TransactionRequests :
          ~GroupExpenseInputSchema(req.body) => IsErrorResponse(TransactionOutcome(req).response)
    /\ \A req \in SettlementRequests :
          (~WellFormed(req) \/ (NotDecidedByKey(req) /\ ~GuardHolds(req))) =>
              IsErrorResponse(SettleOutcome(req).response)

\* the ledger has just thrown on a request (500) while the store held a
\* transaction with a key
C17_Witness ==
    /\ response.status = 500
    /\ Len(transactions) = 1
    /\ Len(ledgerEntries) = 5
    /\ "k1" \in DOMAIN idempotencyMap

----------------------------------------------------------------------------
(* Concurrent identical requests (SpecConcurrent) *)

\* the answered clients that sent the same request as the client
SameRequestAs(client) ==
    {other \in DOMAIN replies : replies[other].request = replies[client].request}

PostedBy(clients) == {c \in clients : replies[c].response.status = 201}

\* what the handler of a waiting request does in the current state
WaitingOutcome(r) ==
    IF r.request.route = "POST /transactions"
    THEN PostTransactionsHandler(CurrentStore, r.request.body, r.request.key, NextUuid, now)
    ELSE PostSettleHandler(CurrentStore, r.request.body, r.request.key, NextUuid, now)

\* C18 (Serialized check-then-insert): when identical POST requests with the
\* same Idempotency-Key are in flight together, the handlers run one after
\* the other, each from its lookup to its cache insert, so two identical
\* requests never both post: at most one of them is answered 201, a 200 is
\* the cached response of the one that posted, the store holds exactly one
\* transaction for them, and every identical request that still waits once
\* one has posted will get the cached response (200) and post nothing.
C18_SerializedCheckThenInsert ==
    /\ \A client \in DOMAIN replies :
          replies[client].request.key # NoKey =>
              /\ Cardinality(PostedBy(SameRequestAs(client))) <= 1
              /\ replies[client].response.status = 200 =>
                    \E other \in PostedBy(SameRequestAs(client)) :
                        replies[other].response.body = replies[client].response.body
              /\ replies[client].response.status \in {200, 201} =>
                    Cardinality({i \in 1..Len(transactions) :
                        transactions[i] = CachedTransaction(replies[client].response.body)}) = 1
    /\ \A r \in inflight, client \in DOMAIN replies :
          (/\ r.request = replies[client].request
           /\ r.request.key # NoKey
           /\ replies[client].response.status = 201) =>
              WaitingOutcome(r) = Outcome(CurrentStore, Json(200, replies[client].response.body))

\* three clients had the same keyed request in flight together; the one
\* whose handler ran first posted, another has got the cached response, and
\* the third still waits
C18_Witness ==
    \E first \in DOMAIN replies, second \in DOMAIN replies, third \in inflight :
        /\ first # second
        /\ replies[first].request = replies[second].request
        /\ replies[first].request.key # NoKey
        /\ replies[first].response.status = 201
        /\ replies[second].response.status = 200
        /\ third.request = replies[first].request

----------------------------------------------------------------------------
(* The stored history *)

EntriesOfTx(txId) == SelectSeq(ledgerEntries, LAMBDA e : e.txId = txId)

SummariesOfTx(txs, txId) == {i \in 1..Len(txs) : txs[i].id = txId}

\* C19 (Transaction atomicity as seen by readers): in every state a
\* projection or GET /transactions can observe, every GROUP transaction has
\* exactly 5 stored entries and every SETTLEMENT transaction exactly 4, every
\* stored entry other than the seed entries belongs to a transaction of its
\* type, and the transaction list, as stored and as GET /transactions
\* returns it, holds exactly one summary for each txId and none for the seed
\* entries.
C19_TransactionAtomicity ==
    /\ \A i \in 1..Len(transactions) :
          LET tx == transactions[i]
              entries == EntriesOfTx(tx.id)
          IN  /\ tx.type \in {"GROUP", "SETTLEMENT"}
              /\ Len(entries) = IF tx.type = "GROUP" THEN 5 ELSE 4
              /\ \A k \in 1..Len(entries) : entries[k].txType = tx.type
              /\ SummariesOfTx(transactions, tx.id) = {i}
              /\ Cardinality(SummariesOfTx(listTransactions(CurrentStore), tx.id)) = 1
    /\ \A k \in 1..Len(ledgerEntries) :
          IF ledgerEntries[k].txType = "INITIAL"
          THEN SummariesOfTx(transactions, ledgerEntries[k].txId) = {}
          ELSE \E i \in 1..Len(transactions) :
                  /\ transactions[i].id = ledgerEntries[k].txId
                  /\ transactions[i].type = ledgerEntries[k].txType
    /\ Len(listTransactions(CurrentStore)) = Len(transactions)

\* GET /transactions has just listed an expense and a settlement posted
\* after a seed (2 + 5 + 4 entries are stored); no key was used, so the 200
\* is no replay
C19_Witness ==
    /\ Len(transactions) = 2
    /\ transactions[1].type = "GROUP"
    /\ transactions[2].type = "SETTLEMENT"
    /\ Len(ledgerEntries) = 11
    /\ ledgerEntries[1].txType = "INITIAL"
    /\ DOMAIN idempotencyMap = {}
    /\ response.status = 200
    /\ response.body = listTransactions(CurrentStore)

IsPrefix(s, t) == Len(s) <= Len(t) /\ SubSeq(t, 1, Len(s)) = s

\* the step is an accepted POST /seed/init
ResetStep ==
    \E req \in SeedRequests, createdAt \in ClockReads :
        LET outcome == SeedInitHandler(CurrentStore, req.isDemo, req.body, createdAt)
        IN  /\ outcome.response.status = 200
            /\ ledgerEntries' = outcome.store.ledgerEntries

\* C20 (Append-only history): outside a reset the stored ledger only grows:
\* after any group expense, settlement, rejected request, idempotent replay
\* or query the previous entry sequence is an unchanged prefix of the new
\* one (no entry is modified, reordered or removed).
C20_AppendOnly == [][IsPrefix(ledgerEntries, ledgerEntries') \/ ResetStep]_vars

\* a request has just been refused after a seed, an expense and a settlement
\* were stored: all 2 + 5 + 4 entries are there, in this order
C20_Witness ==
    /\ response.status = 422
    /\ Len(ledgerEntries) = 11
    /\ ledgerEntries[1].txType = "INITIAL"
    /\ ledgerEntries[3].txType = "GROUP"
    /\ ledgerEntries[8].txType = "SETTLEMENT"

----------------------------------------------------------------------------
(* Projections *)

\* the running total of an account over the stored history
RunningTotal(account) == SumDelta(DeltasOn(ledgerEntries, account))

\* C21 (netDue projection): with r12 the sum of the DUE_FROM:A->B deltas and
\* r21 the sum of the DUE_FROM:B->A deltas over the whole history and
\* net = r12 - r21, computeNetDue returns {owes: null, amount: 0} when net
\* is zero, {owes: B, amount: net} when net > 0 and {owes: A, amount: |net|}
\* when net < 0; owes is null exactly when amount is 0, and amount is never
\* negative.
C21_NetDueProjection ==
    LET r12 == RunningTotal(ACCOUNTS_DUE_FROM("A", "B"))
        r21 == RunningTotal(ACCOUNTS_DUE_FROM("B", "A"))
        net == r12 - r21
        due == computeNetDue(ledgerEntries)
    IN  /\ net = 0 => due = [owes |-> NoUser, amount |-> 0]
        /\ net > 0 => due = [owes |-> "B", amount |-> net]
        /\ net < 0 => due = [owes |-> "A", amount |-> -net]
        /\ (due.owes = NoUser) <=> (due.amount = 0)
        /\ due.amount >= 0

\* A owes B 100.00 after B has paid two expenses of 100.00
C21_Witness ==
    /\ RunningTotal(ACCOUNTS_DUE_FROM("B", "A")) = 100000
    /\ RunningTotal(ACCOUNTS_DUE_FROM("A", "B")) = 0
    /\ computeNetDue(ledgerEntries) = [owes |-> "A", amount |-> 100000]

----------------------------------------------------------------------------
(* Amount validation (SpecLedger) *)

\* C22: validateAmount accepts exactly the amounts that are a positive whole
\* number of cents (at least 0.01, at most 2 decimal digits) and fails for
\* every amount <= 0 and every amount with more than 2 decimal digits;
\* postGroupExpense and postSettlement reject the amounts validateAmount
\* rejects, with its error, before they construct any entry.
C22_ValidateAmount ==
    /\ call.fn = "validateAmount" =>
          /\ (result.error = NoError) <=> WholeCents(call.amount)
          /\ call.amount <= 0 => result.error = "Amount must be positive"
          /\ (call.amount > 0 /\ call.amount % Cent # 0) =>
                result.error = "Amount must have at most 2 decimal places"
    /\ (call.fn \in {"postGroupExpense", "postSettlement"} /\ ~WholeCents(call.amount)) =>
          /\ result.error # NoError
          /\ result.error = validateAmount(call.amount)
          /\ result.entries = <<>>

\* 100.001 has just been refused by postSettlement, for its third decimal
C22_Witness ==
    /\ call.fn = "postSettlement"
    /\ call.amount = 100001
    /\ call.user # call.other
    /\ result.error = "Amount must have at most 2 decimal places"
    /\ result.entries = <<>>

----------------------------------------------------------------------------
(* Whole bill (SpecLedger) *)

\* the two EXPENSE deltas of the entry set just returned, added up
ExpenseTotal ==
    SumDelta(DeltasOn(result.entries, ACCOUNTS_EXPENSE(call.user, call.category)))
    + SumDelta(DeltasOn(result.entries, ACCOUNTS_EXPENSE(Other(call.user), call.category)))

\* C23: every group expense of a whole-cent amount is posted and attributes
\* the whole bill: the payer's and the other party's EXPENSE deltas add up to
\* exactly the expense amount (50.50 + 50.50 = 101.00; for 100.03 the two
\* shares total 100.03).
C23_WholeBill ==
    (call.fn = "postGroupExpense" /\ WholeCents(call.amount)) =>
        /\ result.error = NoError
        /\ ExpenseTotal = call.amount

\* the part of C23 the code keeps: what is posted attributes the whole bill
C23_PostedWholeBill ==
    PostedGroupExpense => ExpenseTotal = call.amount

\* 100.03 is not posted: the shares built are 50.01 + 50.01
C23_OddCentsRefused ==
    /\ call.fn = "postGroupExpense"
    /\ call.amount = 100030
    /\ result.error = "Transaction not balanced"
    /\ result.entries = <<>>
    /\ 2 * splitEqually(call.amount).perUserShare = 100020

----------------------------------------------------------------------------
(* Oracle agreement (SpecProperty) *)

\* C24 (Oracle agreement): starting from a 500/500 seed, after any sequence
\* of accepted group expenses and accepted settlements, what GET /users
\* reports (wallet balances, per-category budgets, netDue owes and amount)
\* agrees, within one cent, with the Oracle run on the same accepted
\* operations.
C24_OracleAgreement ==
    LET api == GetUsersHandler(CurrentStore).response.body
        expected == Oracle_getUserSummaries(oracle)
    IN  /\ \A i \in 1..2 :
              /\ api.users[i].userId = expected.users[i].userId
              /\ Abs(api.users[i].walletBalance - expected.users[i].walletBalance) < Cent
              /\ DOMAIN api.users[i].budgetByCategory
                    = DOMAIN expected.users[i].budgetByCategory
              /\ \A category \in Category :
                    Abs(api.users[i].budgetByCategory[category]
                        - expected.users[i].budgetByCategory[category]) < Cent
        /\ api.netDue.owes = expected.netDue.owes
        /\ Abs(api.netDue.amount - expected.netDue.amount) < Cent

\* two expenses and a settlement have been accepted, and GET /users answered
C24_Witness ==
    /\ Len(transactions) = 3
    /\ \E i \in 1..3 : transactions[i].type = "SETTLEMENT"
    /\ oracle.walletA # DefaultWallet
    /\ oracle.netDue # 0
    /\ response.status = 200
    /\ response = GetUsersHandler(CurrentStore).response

----------------------------------------------------------------------------
(* Transaction listing *)

\* the body GET /transactions answers with
Listed(store) == GetTransactionsHandler(store).response.body

\* C25: GET /transactions returns every group expense and settlement accepted
\* since the last reset exactly once, in the order in which they were posted
\* (non-decreasing createdAt): an accepted request puts its transaction at
\* the end of the list, and a rejected request or an idempotent replay leaves
\* the list as it was.
C25_TransactionListing ==
    LET listed == Listed(CurrentStore)
    IN  /\ listed = transactions
        /\ \A i, j \in 1..Len(listed) :
              /\ i < j => listed[i].createdAt <= listed[j].createdAt
              /\ i # j => listed[i].id # listed[j].id
        /\ \A req \in TransactionRequests, createdAt \in ClockReads :
              LET outcome == PostTransactionsHandler(CurrentStore, req.body, req.key,
                                                     NextUuid, createdAt)
              IN  IF outcome.response.status = 201
                  THEN Listed(outcome.store)
                          = Append(listed, outcome.response.body.transaction)
                  ELSE Listed(outcome.store) = listed
        /\ \A req \in SettlementRequests, createdAt \in ClockReads :
              LET outcome == PostSettleHandler(CurrentStore, req.body, req.key,
                                               NextUuid, createdAt)
              IN  IF outcome.response.status = 201
                  THEN Listed(outcome.store)
                          = Append(listed, outcome.response.body.settlement)
                  ELSE Listed(outcome.store) = listed

\* an expense posted with a key and a later settlement are listed in that
\* order, the expense's request can be replayed, and the request just
\* answered was refused for reusing the key with another body
C25_Witness ==
    /\ Len(transactions) = 2
    /\ transactions[1].type = "GROUP"
    /\ transactions[1].createdAt = 0
    /\ transactions[2].type = "SETTLEMENT"
    /\ transactions[2].createdAt = 1
    /\ Listed(CurrentStore) = transactions
    /\ \E req \in TransactionRequests : IsReplay(req)
    /\ response.status = 409

----------------------------------------------------------------------------
(* Demo seed *)

\* budgets food 60 / groceries 40 / transport 25, nothing else
DemoBudgets ==
    [category \in Category |->
        IF category = "food" THEN 60000
        ELSE IF category = "groceries" THEN 40000
        ELSE IF category = "transport" THEN 25000
        ELSE 0]

\* wallets A = 330 and B = 420, netDue {owes: B, amount: 45}
DemoSummary ==
    [users |-> << [userId |-> "A", walletBalance |-> 330000,
                   budgetByCategory |-> DemoBudgets],
                  [userId |-> "B", walletBalance |-> 420000,
                   budgetByCategory |-> DemoBudgets] >>,
     netDue |-> [owes |-> "B", amount |-> 45000]]

\* the listed transactions are the three demo expenses, in their order
ListsDemoExpenses(listed) ==
    /\ Len(listed) = 3
    /\ \A i \in 1..3 :
          /\ listed[i].type = "GROUP"
          /\ listed[i].payerId = DemoInputs[i].payerId
          /\ listed[i].amount = DemoInputs[i].amount
          /\ listed[i].category = DemoInputs[i].category

\* C26 (Demo seed): POST /seed/init?demo=true with the default wallets resets
\* the state and posts exactly three group expenses (A 120.00 food, B 80.00
\* groceries, A 50.00 transport), leaving wallets A=330 and B=420, budgets
\* food 60 / groceries 40 / transport 25 for each user, netDue {owes: B,
\* amount: 45}, and exactly 3 listed transactions.
C26_DemoSeed ==
    \A req \in SeedRequests, createdAt \in ClockReads :
        LET outcome == SeedInitHandler(CurrentStore, req.isDemo, req.body, createdAt)
        IN  (/\ req.isDemo
             /\ OrDefault(req.body.walletA) = Number(DefaultWallet)
             /\ OrDefault(req.body.walletB) = Number(DefaultWallet)) =>
                /\ outcome.response = Json(200, DemoSummary)
                /\ GetUsersHandler(outcome.store).response.body = DemoSummary
                /\ ListsDemoExpenses(Listed(outcome.store))
                /\ Len(outcome.store.ledgerEntries) = 2 + 3 * 5
                /\ \A k \in 1..2 : outcome.store.ledgerEntries[k].txType = "INITIAL"
                /\ DOMAIN outcome.store.idempotencyMap = {}

\* the demo seed has replaced a history: its entries carry the later clock
\* value, and the three demo expenses are all that is stored
C26_Witness ==
    /\ ListsDemoExpenses(transactions)
    /\ Len(ledgerEntries) = 17
    /\ ledgerEntries[1].txType = "INITIAL"
    /\ ledgerEntries[1].createdAt = 1
    /\ computeCompleteSummary(ledgerEntries) = DemoSummary

----------------------------------------------------------------------------
(* Cumulative duality *)

\* C27 (Cumulative duality): after any sequence of postings, for both ordered
\* pairs (X, Y) the running total of DUE_TO:Y->X equals the negation of the
\* running total of DUE_FROM:X->Y.
C27_CumulativeDuality ==
    \A x \in UserId, y \in UserId :
        x # y =>
            RunningTotal(ACCOUNTS_DUE_TO(y, x)) = -RunningTotal(ACCOUNTS_DUE_FROM(x, y))

\* A paid 100.00 and B has settled 49.99 of the 50.00: the receivable of A
\* stands at 0.01 and the payable of B at -0.01
C27_Witness ==
    /\ Len(transactions) = 2
    /\ transactions[1].type = "GROUP"
    /\ transactions[2].type = "SETTLEMENT"
    /\ RunningTotal(ACCOUNTS_DUE_FROM("A", "B")) = Cent
    /\ RunningTotal(ACCOUNTS_DUE_TO("B", "A")) = -Cent
    /\ RunningTotal(ACCOUNTS_DUE_FROM("B", "A")) = 0

----------------------------------------------------------------------------
(* Entry-set validation (SpecLedger) *)

\* the set holds a DUE_FROM:X->Y entry without a DUE_TO:Y->X entry carrying
\* the exactly negated delta
Unmirrored(entries) ==
    \E k \in 1..Len(entries) :
        /\ entries[k].account[1] = "DUE_FROM"
        /\ ~\E m \in 1..Len(entries) :
              /\ entries[m].account
                    = ACCOUNTS_DUE_TO(entries[k].account[3], entries[k].account[2])
              /\ entries[m].delta = -entries[k].delta

\* C28: validateLedgerEntries returns true for every entry set returned by
\* postGroupExpense or postSettlement, and throws for every entry set whose
\* deltas do not sum to zero or that contains a DUE_FROM:X->Y entry without a
\* DUE_TO:Y->X entry in the same set carrying the exactly negated delta.
C28_ValidateLedgerEntries ==
    /\ (PostedGroupExpense \/ PostedSettlement) =>
          validateLedgerEntries(result.entries) = NoError
    /\ call.fn = "validateLedgerEntries" =>
          /\ call.entries \in PostedSets => result.error = NoError
          /\ SumDelta(call.entries) # 0 => result.error # NoError
          /\ Unmirrored(call.entries) => result.error # NoError

\* what the code keeps of C28: posted sets pass; a set is refused exactly
\* when its deltas sum to more than 0.001 in absolute value, or a DUE_FROM
\* entry has no DUE_TO entry on the mirrored account, or the first such entry
\* misses the negated delta by more than a cent
C28_ValidateWithinTolerance ==
    /\ (PostedGroupExpense \/ PostedSettlement) =>
          validateLedgerEntries(result.entries) = NoError
    /\ call.fn = "validateLedgerEntries" =>
          /\ call.entries \in PostedSets => result.error = NoError
          /\ Abs(SumDelta(call.entries)) > Cent => result.error = "Transaction not balanced"
          /\ (result.error = NoError /\ Unmirrored(call.entries)) =>
                \A k \in 1..Len(call.entries) :
                    call.entries[k].account[1] = "DUE_FROM" =>
                        \E m \in 1..Len(call.entries) :
                            /\ call.entries[m].account
                                  = ACCOUNTS_DUE_TO(call.entries[k].account[3],
                                                    call.entries[k].account[2])
                            /\ Abs(call.entries[m].delta + call.entries[k].delta) <= Cent

\* a balanced set whose payable misses the receivable by one cent has passed:
\* CASH:A -100.01, DUE_FROM:A->B 50.00, DUE_TO:B->A -49.99
C28_CentOffPasses ==
    /\ call.fn = "validateLedgerEntries"
    /\ result.error = NoError
    /\ SumDelta(call.entries) = 0
    /\ \E k, m \in 1..Len(call.entries) :
          /\ call.entries[k].account = ACCOUNTS_DUE_FROM("A", "B")
          /\ call.entries[k].delta = 50000
          /\ call.entries[m].account = ACCOUNTS_DUE_TO("B", "A")
          /\ call.entries[m].delta = -49990
    /\ Unmirrored(call.entries)

----------------------------------------------------------------------------
(* Purity of the projections (SpecProperty) *)

----------------------------------------------------------------------------
(* Budgets by category *)

\* C30: budgetByCategory always reports all five categories (food, groceries,
\* transport, entertainment, other) for each user; a category with no EXPENSE
\* entries for that user reports 0, and each reported value equals the sum of
\* that user's EXPENSE deltas for that category.
C30_BudgetByCategory ==
    \A userId \in UserId :
        LET budget == computeBudgetByCategory(userId, ledgerEntries)
        IN  /\ DOMAIN budget = {"food", "groceries", "transport", "entertainment", "other"}
            /\ \A category \in DOMAIN budget :
                  /\ budget[category] = RunningTotal(ACCOUNTS_EXPENSE(userId, category))
                  /\ DeltasOn(ledgerEntries, ACCOUNTS_EXPENSE(userId, category)) = <<>>
                        => budget[category] = 0
            /\ GetUsersHandler(CurrentStore).response.body
                  .users[IF userId = "A" THEN 1 ELSE 2].budgetByCategory = budget

\* B has a share of 50.00 in food and of 50.00 in groceries and no entry in
\* the other three categories
C30_Witness ==
    /\ Len(transactions) = 2
    /\ RunningTotal(ACCOUNTS_EXPENSE("B", "food")) = 50000
    /\ RunningTotal(ACCOUNTS_EXPENSE("B", "groceries")) = 50000
    /\ DeltasOn(ledgerEntries, ACCOUNTS_EXPENSE("B", "other")) = <<>>
    /\ computeBudgetByCategory("B", ledgerEntries)["other"] = 0
    /\ computeBudgetByCategory("B", ledgerEntries)["food"] = 50000

----------------------------------------------------------------------------
(* Compact summary *)

\* the body GET /summary?userId=... answers with
SummaryOf(userId) == GetSummaryHandler(CurrentStore, userId).response.body

\* C31: GET /summary?userId=U reports netPosition.owes = the other user (not
\* U) whenever any debt exists in either direction, and {owes: null,
\* amount: 0} when none exists; netPosition.amount always equals
\* netDue.amount (after A pays 120.00: A's summary has owes 'B' amount 60 and
\* B's summary has owes 'A' amount 60).
C31_NetPosition ==
    /\ \A userId \in UserId :
          LET outcome == GetSummaryHandler(CurrentStore, userId)
              netPosition == outcome.response.body.netPosition
              due == computeNetDue(ledgerEntries)
          IN  /\ outcome.response.status = 200
              /\ outcome.store = CurrentStore
              /\ outcome.response.body.userId = userId
              /\ netPosition.amount = due.amount
              /\ due.owes # NoUser => netPosition.owes = Other(userId)
              /\ due.owes = NoUser => netPosition = [owes |-> NoUser, amount |-> 0]
    /\ AfterScenarioExpense =>
          /\ SummaryOf("A").netPosition = [owes |-> "B", amount |-> 60000]
          /\ SummaryOf("B").netPosition = [owes |-> "A", amount |-> 60000]

\* A has paid 120.00 after the seed: B owes 60.00, and B's own summary names A
C31_Witness ==
    /\ AfterScenarioExpense
    /\ computeNetDue(ledgerEntries) = [owes |-> "B", amount |-> 60000]
    /\ SummaryOf("B").netPosition.owes = "A"
    /\ SummaryOf("A").walletBalance = 380000

----------------------------------------------------------------------------
(* ADR rounding rule (SpecLedger) *)

\* C32 (ADR / demo rounding rule): a group expense of 100.01 paid by A is
\* recorded with each user's expense share equal to 50.01 and with A owed
\* 50.01 by B.
C32_RoundingRule ==
    (call.fn = "postGroupExpense" /\ call.user = "A" /\ call.amount = 100010) =>
        /\ result.error = NoError
        /\ SumDelta(DeltasOn(result.entries, ACCOUNTS_EXPENSE("A", call.category))) = 50010
        /\ SumDelta(DeltasOn(result.entries, ACCOUNTS_EXPENSE("B", call.category))) = 50010
        /\ SumDelta(DeltasOn(result.entries, ACCOUNTS_DUE_FROM("A", "B"))) = 50010
        /\ SumDelta(DeltasOn(result.entries, ACCOUNTS_DUE_TO("B", "A"))) = -50010

\* 100.01 paid by A is refused; the split it was refused with is 50.00 each
\* and one cent of remainder
C32_Refused ==
    /\ call.fn = "postGroupExpense"
    /\ call.user = "A"
    /\ call.amount = 100010
    /\ result.error = "Transaction not balanced"
    /\ result.entries = <<>>
    /\ splitEqually(call.amount).perUserShare = 50000
    /\ splitEqually(call.amount).remainder = Cent

----------------------------------------------------------------------------
(* Budgets only grow *)

\* every budget of every user is at least what the other history gives it
BudgetsAtLeast(later, earlier) ==
    \A userId \in UserId, category \in Category :
        Budgets(later)[userId][category] >= Budgets(earlier)[userId][category]

NonNegativeBudgets ==
    \A userId \in UserId, category \in Category :
        Budgets(ledgerEntries)[userId][category] >= 0

\* C33 (Budgets only grow): after any sequence of accepted operations short
\* of a reset, every user's budget for every category is non-negative and
\* never lower than it was in any earlier state (no step other than a reset
\* lowers a budget).
C33_BudgetsOnlyGrow ==
    /\ []NonNegativeBudgets
    /\ [][BudgetsAtLeast(ledgerEntries', ledgerEntries) \/ ResetStep]_vars

\* two expenses in the same category (120.00 and 100.00): each user's budget
\* grew to 60.00 and then to 110.00
C33_Witness ==
    /\ Len(transactions) = 2
    /\ transactions[1].type = "GROUP"
    /\ transactions[2].type = "GROUP"
    /\ transactions[1].category = transactions[2].category
    /\ Budgets(ledgerEntries)["A"][transactions[1].category] = 110000
    /\ Budgets(ledgerEntries)["B"][transactions[1].category] = 110000

----------------------------------------------------------------------------
(* Receivables under the over-settlement guard (SpecProperty) *)

\* both DUE_FROM totals of the history are >= 0 and both DUE_TO totals <= 0
ReceivablesNonNegative(entries) ==
    \A x \in UserId, y \in UserId :
        x # y =>
            /\ SumDelta(DeltasOn(entries, ACCOUNTS_DUE_FROM(x, y))) >= 0
            /\ SumDelta(DeltasOn(entries, ACCOUNTS_DUE_TO(x, y))) <= 0

\* C34: under the HTTP API (settlements admitted only by the over-settlement
\* guard), neither receivable account ever goes negative: after any sequence
\* of accepted group expenses and settlements the running totals of
\* DUE_FROM:A->B and DUE_FROM:B->A are both >= 0 (and both DUE_TO totals are
\* <= 0), whichever settlement is requested next.
C34_ReceivablesNonNegative ==
    /\ ReceivablesNonNegative(ledgerEntries)
    /\ \A from \in UserId, cents \in TestSettlementCents :
          ReceivablesNonNegative(
              PostSettleHandler(CurrentStore,
                  [fromUserId |-> from, toUserId |-> Other(from), amount |-> Money(cents)],
                  NoKey, NextUuid, now).store.ledgerEntries)

\* each user has paid an expense and the net debtor has settled a part: both
\* receivables are still positive
C34_Witness ==
    /\ Len(transactions) = 3
    /\ transactions[3].type = "SETTLEMENT"
    /\ RunningTotal(ACCOUNTS_DUE_FROM("A", "B")) > 0
    /\ RunningTotal(ACCOUNTS_DUE_FROM("B", "A")) > 0
    /\ RunningTotal(ACCOUNTS_DUE_TO("A", "B")) < 0

----------------------------------------------------------------------------
(* Replay of a settlement that is paid (SpecConcurrent) *)

\* the keyed settlements the clients send
KeyedSettlements ==
    {r \in ConcurrentRequests : r.route = "POST /settle" /\ r.key # NoKey}

\* an expense posted after the settlement: A pays 100.00 for food
LaterExpense == [payerId |-> "A", amount |-> Money(10000), category |-> "food"]

\* C35: on POST /settle the idempotency lookup runs before the
\* over-settlement check: repeating an already-accepted settlement with the
\* same key and body returns 200 with the original response and posts
\* nothing, even when the same settlement would now be rejected as
\* over-settlement because the debt has since been paid; the replayed summary
\* is the one computed at the time of the original request, not the current
\* one.
C35_ReplayBeforeGuard ==
    \A r \in KeyedSettlements :
        LET outcome == PostSettleHandler(CurrentStore, r.body, r.key, NextUuid, now)
            paid == outcome.store
            again == PostSettleHandler(paid, r.body, r.key, NextUuid + 1, now)
            unkeyed == PostSettleHandler(paid, r.body, NoKey, NextUuid + 1, now)
            later == PostTransactionsHandler(paid, LaterExpense, NoKey, NextUuid + 1, now)
            againLater == PostSettleHandler(later.store, r.body, r.key, NextUuid + 2, now)
        IN  /\ (hasIdempotencyResponse(CurrentStore, r.key)
                    /\ getIdempotencyResponse(CurrentStore, r.key).input = r.body) =>
                  /\ outcome.response
                        = Json(200, getIdempotencyResponse(CurrentStore, r.key).data)
                  /\ outcome.store = CurrentStore
            /\ outcome.response.status = 201 =>
                  /\ again.response = Json(200, outcome.response.body)
                  /\ again.store = paid
                  /\ computeNetDue(paid.ledgerEntries).owes = NoUser =>
                        IsOverSettlementError(unkeyed.response)
                  /\ later.response.status = 201
                  /\ againLater.response = Json(200, outcome.response.body)
                  /\ againLater.store = later.store
                  /\ againLater.response.body.summary
                        # computeCompleteSummary(later.store.ledgerEntries)

\* B's settlement of the whole debt was answered 201 for one client and, the
\* debt now paid, 200 for another that sent it again with the same key
C35_Witness ==
    \E first \in DOMAIN replies, second \in DOMAIN replies :
        /\ first # second
        /\ replies[first].request \in KeyedSettlements
        /\ replies[second].request = replies[first].request
        /\ replies[first].response.status = 201
        /\ replies[second].response.status = 200
        /\ replies[second].response.body = replies[first].response.body
        /\ computeNetDue(ledgerEntries).owes = NoUser
        /\ IsOverSettlementError(
               PostSettleHandler(CurrentStore, replies[first].request.body, NoKey,
                                 NextUuid, now).response)

----------------------------------------------------------------------------
(* Keys of rejected requests (SpecConcurrent) *)

\* what the handler of the route does with the body and the key
HandlerOf(route, body, key) ==
    IF route = "POST /transactions"
    THEN PostTransactionsHandler(CurrentStore, body, key, NextUuid, now)
    ELSE PostSettleHandler(CurrentStore, body, key, NextUuid, now)

\* the body of the request, and another body for the same route
LaterBodies(request) ==
    { request.body,
      IF request.route = "POST /transactions"
      THEN [request.body EXCEPT !.payerId = Other(@)]
      ELSE [request.body EXCEPT !.amount = Money(4999)] }

\* C36: a POST /transactions or POST /settle that is rejected does not record
\* its Idempotency-Key: the cache is as it was, every cached key belongs to a
\* request answered 201, and a later request with the key of a rejected
\* request (same or different body) is evaluated afresh against the
\* then-current ledger, as the same request without a key is, and can be
\* accepted with 201, rather than replaying the failure or returning 409.
C36_RejectedKeyNotRecorded ==
    /\ \A r \in ConcurrentRequests :
          LET outcome == HandlerOf(r.route, r.body, r.key)
          IN  IsErrorResponse(outcome.response) => outcome.store = CurrentStore
    /\ \A key \in DOMAIN idempotencyMap :
          \E c \in DOMAIN replies :
              /\ replies[c].request.key = key
              /\ replies[c].response.status = 201
              /\ idempotencyMap[key].input = replies[c].request.body
              /\ idempotencyMap[key].data = replies[c].response.body
    /\ \A c \in DOMAIN replies :
          LET request == replies[c].request
          IN  (/\ IsErrorResponse(replies[c].response)
               /\ request.key # NoKey
               /\ ~hasIdempotencyResponse(CurrentStore, request.key)) =>
                  \A body \in LaterBodies(request) :
                      LET keyed == HandlerOf(request.route, body, request.key)
                          fresh == HandlerOf(request.route, body, NoKey)
                      IN  /\ keyed.response = fresh.response
                          /\ keyed.response.status \notin {200, 409}
                          /\ keyed.store.ledgerEntries = fresh.store.ledgerEntries

\* B's keyed settlement was refused while nothing was owed and, sent again
\* with the same key after A's expense, accepted with 201
C36_Witness ==
    \E first \in DOMAIN replies, second \in DOMAIN replies :
        /\ first # second
        /\ replies[first].request.route = "POST /settle"
        /\ replies[first].request.key # NoKey
        /\ replies[second].request = replies[first].request
        /\ replies[first].response.status = 422
        /\ replies[second].response.status = 201
        /\ hasIdempotencyResponse(CurrentStore, replies[first].request.key)

----------------------------------------------------------------------------
(* Equal budgets *)

----------------------------------------------------------------------------
(* Total cash *)

RECURSIVE GroupExpenseTotal(_)
\* the sum of the amounts of the group expenses in the transaction list
GroupExpenseTotal(txs) ==
    IF txs = <<>> THEN 0
    ELSE (IF Head(txs).type = "GROUP" THEN Head(txs).amount ELSE 0)
         + GroupExpenseTotal(Tail(txs))

\* walletBalance(A) + walletBalance(B)
WalletTotal(entries) ==
    computeWalletBalance("A", entries) + computeWalletBalance("B", entries)

\* the store with the seeded cash taken away: no wallet covers any payment
WithoutCash(store) ==
    [store EXCEPT !.ledgerEntries =
        [k \in 1..Len(@) |->
            IF @[k].txType = "INITIAL" THEN [@[k] EXCEPT !.delta = 0] ELSE @[k]]]

\* an accepted settlement keeps the wallet total, and no request is answered
\* otherwise for want of cash
CashNeverDecides ==
    /\ \A req \in SettlementRequests :
          /\ SettleOutcome(req).response.status = 201 =>
                WalletTotal(SettleOutcome(req).store.ledgerEntries)
                    = WalletTotal(ledgerEntries)
          /\ PostSettleHandler(WithoutCash(CurrentStore), req.body, req.key,
                               NextUuid, now).response.status
                = SettleOutcome(req).response.status
    /\ \A req \in TransactionRequests :
          PostTransactionsHandler(WithoutCash(CurrentStore), req.body, req.key,
                                  NextUuid, now).response.status
              = TransactionOutcome(req).response.status

\* C38 (Total cash): after any sequence of operations since the last seed,
\* walletBalance(A) + walletBalance(B) equals the seeded total minus the sum
\* of all accepted group-expense amounts; an accepted settlement leaves the
\* sum of the two wallets unchanged, and no operation is ever refused because
\* a wallet would become negative.
C38_TotalCash ==
    /\ WalletTotal(ledgerEntries)
          = Seeded("A") + Seeded("B") - GroupExpenseTotal(transactions)
    /\ CashNeverDecides

\* C38 with each seeded amount rounded to cents, as the wallet projection
\* rounds it
C38_TotalCashRounded ==
    /\ WalletTotal(ledgerEntries)
          = roundTo2Decimals(Seeded("A")) + roundTo2Decimals(Seeded("B"))
            - GroupExpenseTotal(transactions)
    /\ CashNeverDecides

\* seeded with 0.004 and 500.00, A has paid 100.00: the wallets read -100.00
\* and 500.00, 0.004 short of the seeded total less the expense
C38_SubCentSeed ==
    /\ Seeded("A") = 4
    /\ Seeded("B") = DefaultWallet
    /\ Len(transactions) = 1
    /\ GroupExpenseTotal(transactions) = 100000
    /\ computeWalletBalance("A", ledgerEntries) = -100000
    /\ WalletTotal(ledgerEntries) = 400000

----------------------------------------------------------------------------
(* Rejected seed *)

\* the wallet of a seed body after the defaults: not a number, or negative
BadWallet(wallet) ==
    OrDefault(wallet).type # "number" \/ OrDefault(wallet).value < 0

\* C39 (Rejected seed): a POST /seed/init whose walletA or walletB is negative
\* or not a number is rejected with 422 before anything is cleared: ledger
\* entries, transaction list and idempotency cache are exactly as before the
\* request.
C39_SeedRejectedCleanly ==
    \A req \in SeedRequests :
        BadWallet(req.body.walletA) \/ BadWallet(req.body.walletB)
            => LET outcome == SeedOutcome(req)
               IN  /\ outcome.response.status = 422
                   /\ outcome.store.ledgerEntries = ledgerEntries
                   /\ outcome.store.transactions = transactions
                   /\ outcome.store.idempotencyMap = idempotencyMap

\* a seed with a negative wallet has just been refused while the store holds
\* a keyed transaction
C39_Witness ==
    /\ response.status = 422
    /\ response.body.detail = "Wallet balances cannot be negative"
    /\ Len(transactions) >= 1
    /\ idempotencyMap # clear(CurrentStore).idempotencyMap
    /\ ledgerEntries # clear(CurrentStore).ledgerEntries

====
